---- MODULE Spec2Model ----
(***************************************************************************)
(* Four-player chess engine (Arcify/4-player-chess-engine).                *)
(*                                                                         *)
(* The model follows src/board.py (Board), src/pieces.py (the six piece    *)
(* kinds), src/helpers.py (Move, Position), src/players.py (the searches   *)
(* of RandomComputerPlayer) and the game loop of src/chess_engine.py       *)
(* (FourPlayerChess).                                                      *)
(*                                                                         *)
(* A Position is the pair <<x, y>> (row, column).  A Python dict is a      *)
(* sequence of entries [pos, piece] in insertion order, a Python list is a *)
(* sequence.  A piece is a record; the field id stands for the identity of *)
(* the Python object (pieces define neither __eq__ nor __hash__).          *)
(***************************************************************************)
EXTENDS Integers, Sequences, FiniteSets, TLC

VARIABLES
    piece_locations,   \* Board.piece_locations of the game board
    current_player,    \* Board.current_player
    legal_moves,       \* Board.legal_moves
    selected_tiles,    \* FourPlayerChess.play: selected_tiles
    game_finished,     \* FourPlayerChess.play: game_finished
    pc,                \* position of the running code
    opponent,          \* "computer" or "human": the answer given to __init__
    turns,             \* number of switch_players() calls made by play()
    call,              \* the Board operation being called, with its arguments
    ret                \* what that operation returned / left behind

vars == <<piece_locations, current_player, legal_moves, selected_tiles,
          game_finished, pc, opponent, turns, call, ret>>

\* Python's None
None == [none |-> TRUE]

\* a list or dict held where None is possible too (an optional argument, a
\* return value): TLC compares None with the wrapped value, never with a list
Some(v) == [some |-> v]

\* Body applied to value, value being computed once: a Python local variable
Bind(value, Body(_)) == CHOOSE result \in {Body(v) : v \in {value}} : TRUE

(***************************************************************************)
(* Bounds of the model                                                     *)
(***************************************************************************)
\* coordinates probed outside the 14x14 grid, on each side
Margin == 2

\* switch_players() calls after which play() is no longer followed
MaxTurns == 13

\* events handled in one pass of the loop of play()
MaxEvents == 1

\* moves a client of Board makes and keeps before the call looked at
MaxMoves == 1

(***************************************************************************)
(* helpers.py                                                              *)
(***************************************************************************)
Position(x, y) == <<x, y>>

get_x(position) == position[1]

get_y(position) == position[2]

\* Move.get_notation: file letter chr(y + 97) and rank 14 - x, start then end;
\* the string is kept as the tuple of its four parts
get_notation(start_position, end_position) ==
    << get_y(start_position) + 97, 14 - get_x(start_position),
       get_y(end_position) + 97, 14 - get_x(end_position) >>

Move(start_position, end_position) ==
    [ start_position |-> start_position,
      end_position   |-> end_position,
      move_name      |-> get_notation(start_position, end_position) ]

\* Move.__eq__
MoveEq(m, other) == m.move_name = other.move_name

\* `move in moves` on a list of Move
MoveIn(m, moves) == \E i \in DOMAIN moves : MoveEq(m, moves[i])

(***************************************************************************)
(* board.py: geometry                                                      *)
(***************************************************************************)
\* is_on_board whose upper band runs one column too far
is_on_board_wide(position) ==
    \/ (3 <= get_x(position) /\ get_x(position) <= 10
        /\ 0 <= get_y(position) /\ get_y(position) <= 13)
    \/ (0 <= get_x(position) /\ get_x(position) < 3
        /\ 3 <= get_y(position) /\ get_y(position) <= 11)
    \/ (13 >= get_x(position) /\ get_x(position) > 10
        /\ 10 >= get_y(position) /\ get_y(position) >= 3)

is_on_board(position) ==
    \/ (3 <= get_x(position) /\ get_x(position) <= 10
        /\ 0 <= get_y(position) /\ get_y(position) <= 13)
    \/ (0 <= get_x(position) /\ get_x(position) < 3
        /\ 3 <= get_y(position) /\ get_y(position) <= 10)
    \/ (13 >= get_x(position) /\ get_x(position) > 10
        /\ 10 >= get_y(position) /\ get_y(position) >= 3)

getmove(position, xm, ym) == Position(position[1] + xm, position[2] + ym)

(***************************************************************************)
(* Python dict and list primitives                                         *)
(***************************************************************************)
RemoveAt(s, i) == SubSeq(s, 1, i - 1) \o SubSeq(s, i + 1, Len(s))

\* the index of key in the dict d, 0 when the key is absent
DictIndex(d, key) ==
    IF \E i \in DOMAIN d : d[i].pos = key
    THEN CHOOSE i \in DOMAIN d : d[i].pos = key
    ELSE 0

\* d.pop(key): the entry leaves the dict; KeyError when the key is absent
DictPop(d, key) ==
    LET i == DictIndex(d, key)
    IN  IF i = 0
        THEN [d |-> d, value |-> None, raised |-> TRUE]
        ELSE [d |-> RemoveAt(d, i), value |-> d[i].piece, raised |-> FALSE]

\* d[key] = value: an existing key keeps its place, a new key goes last
DictSet(d, key, value) ==
    LET i == DictIndex(d, key)
    IN  IF i = 0
        THEN Append(d, [pos |-> key, piece |-> value])
        ELSE [d EXCEPT ![i] = [pos |-> key, piece |-> value]]

\* the mapping a dict holds, whatever the insertion order
Mapping(d) == {d[i] : i \in DOMAIN d}

\* dict.copy(): a new dict with the same entries
DictCopy(d) == d

(***************************************************************************)
(* board.py: piece lookup, move application                                *)
(***************************************************************************)
check_for_piece(locs, position) ==
    LET i == DictIndex(locs, position)
    IN  IF i = 0 THEN None ELSE locs[i].piece

remove_piece(locs, position) ==
    LET popped == DictPop(locs, position)
    IN  IF popped.raised
        THEN [locs |-> locs, removed_piece |-> None]
        ELSE [locs |-> popped.d, removed_piece |-> popped.value]

\* make_move: [locs: the dict afterwards, removed_piece: the return value,
\* raised: TRUE when pop(start) raised KeyError (the removal of the end square
\* has happened by then)]
make_move(locs, move) ==
    LET removed     == remove_piece(locs, move.end_position)
        new_end_pos == Position(get_x(move.end_position), get_y(move.end_position))
        popped      == DictPop(removed.locs, move.start_position)
    IN  IF popped.raised
        THEN [locs |-> removed.locs, removed_piece |-> None, raised |-> TRUE]
        ELSE [locs |-> DictSet(popped.d, new_end_pos, popped.value),
              removed_piece |-> removed.removed_piece, raised |-> FALSE]

undo_move(locs, move, removed_piece) ==
    LET target_pos == Position(get_x(move.end_position), get_y(move.end_position))
        orig_pos   == Position(get_x(move.start_position), get_y(move.start_position))
        popped     == DictPop(locs, move.end_position)
        back       == DictSet(popped.d, orig_pos, popped.value)
    IN  IF popped.raised
        THEN [locs |-> locs, raised |-> TRUE]
        ELSE [locs |-> IF removed_piece # None
                       THEN DictSet(back, target_pos, removed_piece)
                       ELSE back,
              raised |-> FALSE]

(***************************************************************************)
(* players and colours                                                     *)
(***************************************************************************)
\* the colours of the players list built by FourPlayerChess.__init__, by index
PlayerColors == <<"red", "blue", "yellow", "green">>

\* players[current_player].get_color()
get_color(player) == PlayerColors[player + 1]

\* Python's `color in allied_colors` on the team strings (a substring test)
In(color, allied_colors) ==
    \/ allied_colors = "redyellow" /\ color \in {"red", "yellow"}
    \/ allied_colors = "bluegreen" /\ color \in {"blue", "green"}
    \/ allied_colors = "blueyellow" /\ color \in {"blue", "yellow"}
    \/ allied_colors = "redgreen" /\ color \in {"red", "green"}

switch_players_stuck(player) == IF player < 3 THEN player + 1 ELSE 3

\* switch_players: the new value of current_player
switch_players(player) == IF player < 3 THEN player + 1 ELSE 0

(***************************************************************************)
(* board.py: check and pin detection                                       *)
(***************************************************************************)
\* the 8 ray directions of check_info, in its order (k = 0..7)
directions == << <<-1, 0>>, <<0, -1>>, <<1, 0>>, <<0, 1>>,
                 <<-1, -1>>, <<-1, 1>>, <<1, -1>>, <<1, 1>> >>

knight_moves == << <<-2, -1>>, <<-2, 1>>, <<-1, -2>>, <<-1, 2>>,
                   <<1, -2>>, <<1, 2>>, <<2, -1>>, <<2, 1>> >>

\* range(1, 13) of check_info, block_or_capture and Rook.get_legal_moves
RangeEnd == 13

\* range(1, 10) of Bishop.get_legal_moves
BishopRangeEnd == 10

Neg(direction) == <<-direction[1], -direction[2]>>

\* the first position of the dict, in iteration order, that holds the King of
\* the current player's colour; None without one
get_king_pos(locs, player) ==
    LET found == {i \in DOMAIN locs :
                    /\ locs[i].piece.color = get_color(player)
                    /\ locs[i].piece.piece_name = "K"}
    IN  IF found = {} THEN None
        ELSE locs[CHOOSE i \in found : \A j \in found : i <= j].pos

\* possible_check; a return of None (a pawn that looks elsewhere) counts as False
possible_check(k, tile, piece, direction) ==
    IF 0 <= k /\ k <= 3 /\ piece.piece_name = "R" THEN TRUE
    ELSE IF 4 <= k /\ k <= 7 /\ piece.piece_name = "B" THEN TRUE
    ELSE IF tile = 1 /\ piece.piece_name = "P"
         THEN \/ piece.diag_left_direction = Neg(direction)
              \/ piece.diag_right_direction = Neg(direction)
    ELSE IF piece.piece_name = "Q" THEN TRUE
    ELSE IF tile = 1 /\ piece.piece_name = "K" THEN TRUE
    ELSE FALSE

\* the least number of a non-empty set of numbers
Min(numbers) == CHOOSE n \in numbers : \A m \in numbers : n <= m

\* the inner loop of check_info along directions[k + 1]: what the ray finds,
\* [kind: "none"], [kind: "check", entry] or [kind: "pin", key, value].  The
\* loop visits the tiles up to the first square off the board; the first
\* piece it meets gives check or, allied, becomes possible_pin; the second
\* one ends the loop, pinning when it is an enemy that possible_check accepts.
ScanRay(locs, player, position, k) ==
    LET direction    == directions[k + 1]
        square(tile) == getmove(position, direction[1] * tile, direction[2] * tile)
        piece(tile)  == check_for_piece(locs, square(tile))
        visited  == {tile \in 1..(RangeEnd - 1) :
                        \A t \in 1..tile : is_on_board(square(t))}
        occupied == {tile \in visited : piece(tile) # None}
        first    == Min(occupied)
        second   == Min(occupied \ {first})
        allied(tile) == In(get_color(player), piece(tile).team)
    IN  IF occupied = {} THEN [kind |-> "none"]
        ELSE IF ~allied(first)
        THEN IF possible_check(k, first, piece(first), direction)
             THEN [kind |-> "check", entry |-> <<square(first), direction>>]
             ELSE [kind |-> "none"]
        ELSE IF occupied = {first} THEN [kind |-> "none"]
        ELSE IF allied(second) THEN [kind |-> "none"]
        ELSE IF possible_check(k, second, piece(second), direction)
        THEN [kind |-> "pin", key |-> piece(second),
              value |-> <<square(first), direction>>]
        ELSE [kind |-> "none"]

\* the knight loop of check_info: the entries it appends
KnightChecks(locs, player, position) ==
    LET entry(n) == <<getmove(position, knight_moves[n][1], knight_moves[n][2]),
                      knight_moves[n]>>
        checks(e) ==
            /\ is_on_board(e[1])
            /\ check_for_piece(locs, e[1]) # None
            /\ ~In(get_color(player), check_for_piece(locs, e[1]).team)
            /\ check_for_piece(locs, e[1]).piece_name = "N"
    IN  SelectSeq([n \in 1..Len(knight_moves) |-> entry(n)], checks)

\* check_info.append((end_position, direction)), ray by ray
RayChecks(scans) ==
    LET found  == SelectSeq(scans, LAMBDA scan : scan.kind = "check")
    IN  [n \in 1..Len(found) |-> found[n].entry]

\* pin_info[piece] = possible_pin, ray by ray
RayPins(scans) ==
    LET found  == SelectSeq(scans, LAMBDA scan : scan.kind = "pin")
    IN  [n \in 1..Len(found) |-> [key |-> found[n].key, value |-> found[n].value]]

\* check_info: [in_check, pin_info, check_info]; pin_info is the dict as the
\* sequence of its entries [key, value]
check_info(locs, player) ==
    Bind(get_king_pos(locs, player), LAMBDA position :
        IF position = None
        THEN [in_check |-> TRUE, pin_info |-> <<>>, check_info |-> <<>>]
        ELSE
        Bind([n \in 1..8 |-> ScanRay(locs, player, position, n - 1)], LAMBDA scans :
        Bind(RayChecks(scans) \o KnightChecks(locs, player, position),
             LAMBDA checks :
                [in_check   |-> checks # <<>>,
                 pin_info   |-> RayPins(scans),
                 check_info |-> checks])))

\* block_or_capture: the squares from the king towards the first checker, the
\* checker's square last; None when the loop ends without reaching it
block_or_capture(locs, player, checks) ==
    Bind(get_king_pos(locs, player), LAMBDA king :
        LET square(tiles) == Position(get_x(king) + checks[1][2][1] * tiles,
                                      get_y(king) + checks[1][2][2] * tiles)
            reaching == {tiles \in 1..(RangeEnd - 1) : square(tiles) = checks[1][1]}
        IN  IF reaching = {} THEN None
            ELSE Some([tiles \in 1..Min(reaching) |-> square(tiles)]))

(***************************************************************************)
(* pieces.py: move generation of the six piece kinds                       *)
(*                                                                         *)
(* Every generator takes the accumulator `moves` and returns it extended.  *)
(* poss_positions is None or Some(list of positions); pin_info is None or  *)
(* Some(the dict built by check_info, as the sequence of its entries).     *)
(***************************************************************************)
RECURSIVE get_moves(_, _, _)

RECURSIVE simulate(_, _, _, _)

\* `position in poss_positions` (Position.__eq__ compares the coordinates)
PosIn(position, poss_positions) ==
    \E i \in DOMAIN poss_positions.some : poss_positions.some[i] = position

\* bool(position): Position defines neither __bool__ nor __len__
Truthy(position) == TRUE

\* `if self in pin_info: pin_direction = pin_info[self][1]`
PinDirection(self, pin_info) ==
    IF pin_info # None /\ \E i \in DOMAIN pin_info.some : pin_info.some[i].key = self
    THEN pin_info.some[CHOOSE i \in DOMAIN pin_info.some :
                            pin_info.some[i].key = self].value[2]
    ELSE None

Pawn_get_legal_moves(locs, self, moves, position, poss_positions, pin_info) ==
    LET end_position             == getmove(position, self.direction[1], self.direction[2])
        end_position_two_squares == getmove(position, self.direction[1] * 2,
                                            self.direction[2] * 2)
        end_position_diag_left   == getmove(position, self.diag_left_direction[1],
                                            self.diag_left_direction[2])
        end_position_diag_right  == getmove(position, self.diag_right_direction[1],
                                            self.diag_right_direction[2])
        pin_direction == PinDirection(self, pin_info)
        left          == check_for_piece(locs, end_position_diag_left)
        right         == check_for_piece(locs, end_position_diag_right)
        forward ==
            /\ check_for_piece(locs, end_position) = None
            /\ (poss_positions = None \/ PosIn(end_position, poss_positions))
            /\ \/ pin_direction = None
               \/ pin_direction = <<self.direction[1], self.direction[2]>>
               \/ pin_direction = <<-self.direction[1], -self.direction[2]>>
        m1 == IF forward THEN Append(moves, Move(position, end_position)) ELSE moves
        m2 == IF /\ forward
                 /\ (poss_positions = None \/ PosIn(end_position, poss_positions))
                 /\ self.start_position = position
                 /\ check_for_piece(locs, end_position_two_squares) = None
              THEN Append(m1, Move(position, end_position_two_squares))
              ELSE m1
        m3 == IF /\ left # None
                 /\ ~In(left.color, self.team)
                 /\ (poss_positions = None \/ Truthy(end_position_diag_left))
                 /\ \/ pin_direction = None
                    \/ pin_direction = <<self.diag_left_direction[1],
                                         self.diag_left_direction[2]>>
                    \/ pin_direction = <<-self.diag_left_direction[1],
                                         -self.diag_left_direction[2]>>
              THEN Append(m2, Move(position, end_position_diag_left))
              ELSE m2
        m4 == IF /\ right # None
                 /\ ~In(right.color, self.team)
                 /\ (poss_positions = None \/ PosIn(end_position_diag_right, poss_positions))
                 /\ \/ pin_direction = None
                    \/ pin_direction = <<self.diag_right_direction[1],
                                         self.diag_right_direction[2]>>
                    \/ pin_direction = <<-self.diag_right_direction[1],
                                         -self.diag_right_direction[2]>>
              THEN Append(m3, Move(position, end_position_diag_right))
              ELSE m3
    IN  IF is_on_board(end_position) THEN m4 ELSE moves

\* Knight.get_legal_moves without the test of the colour on the end square
Knight_get_legal_moves_any_target(locs, self, moves, position, poss_positions, pin_info) ==
    LET end_position(n) == getmove(position, knight_moves[n][1], knight_moves[n][2])
        add(move) ==
            /\ (poss_positions = None \/ PosIn(move.end_position, poss_positions))
            /\ is_on_board(move.end_position)
    IN  moves \o SelectSeq([n \in 1..Len(knight_moves) |->
                               Move(position, end_position(n))], add)

Knight_get_legal_moves(locs, self, moves, position, poss_positions, pin_info) ==
    LET end_position(n) == getmove(position, knight_moves[n][1], knight_moves[n][2])
        add(move) ==
            /\ (poss_positions = None \/ PosIn(move.end_position, poss_positions))
            /\ is_on_board(move.end_position)
            /\ \/ check_for_piece(locs, move.end_position) = None
               \/ ~In(check_for_piece(locs, move.end_position).color, self.team)
    IN  moves \o SelectSeq([n \in 1..Len(knight_moves) |->
                               Move(position, end_position(n))], add)

\* the inner loop of Bishop/Rook.get_legal_moves along one direction: the
\* moves it appends.  The loop visits the tiles below range_end up to the
\* first square that is off the board or occupied; it appends the move to
\* every empty square it visits and to the occupied one when an enemy stands
\* there, provided poss_positions and the pin allow the move.
Slide(locs, self, position, direction, range_end, poss_positions, pin_direction) ==
    LET square(tiles) == getmove(position, direction[1] * tiles, direction[2] * tiles)
        piece(tiles)  == check_for_piece(locs, square(tiles))
        visited(tiles) ==
            /\ \A t \in 1..tiles : is_on_board(square(t))
            /\ \A t \in 1..(tiles - 1) : piece(t) = None
        pinned_away ==
            /\ pin_direction # None
            /\ direction # pin_direction
            /\ Neg(direction) # pin_direction
        add(move) ==
            /\ (poss_positions = None \/ PosIn(move.end_position, poss_positions))
            /\ ~pinned_away
        reached == {tiles \in 1..(range_end - 1) :
                      /\ visited(tiles)
                      /\ (piece(tiles) = None \/ ~In(piece(tiles).color, self.team))}
    IN  SelectSeq([tiles \in 1..Cardinality(reached) |-> Move(position, square(tiles))],
                  add)

Bishop_get_legal_moves(locs, self, moves, position, poss_positions, pin_info) ==
    Bind(PinDirection(self, pin_info), LAMBDA pin_direction :
        moves
        \o Slide(locs, self, position, <<-1, -1>>, BishopRangeEnd, poss_positions,
                 pin_direction)
        \o Slide(locs, self, position, <<-1, 1>>, BishopRangeEnd, poss_positions,
                 pin_direction)
        \o Slide(locs, self, position, <<1, -1>>, BishopRangeEnd, poss_positions,
                 pin_direction)
        \o Slide(locs, self, position, <<1, 1>>, BishopRangeEnd, poss_positions,
                 pin_direction))

Rook_get_legal_moves(locs, self, moves, position, poss_positions, pin_info) ==
    Bind(PinDirection(self, pin_info), LAMBDA pin_direction :
        moves
        \o Slide(locs, self, position, <<-1, 0>>, RangeEnd, poss_positions,
                 pin_direction)
        \o Slide(locs, self, position, <<0, -1>>, RangeEnd, poss_positions,
                 pin_direction)
        \o Slide(locs, self, position, <<1, 0>>, RangeEnd, poss_positions,
                 pin_direction)
        \o Slide(locs, self, position, <<0, 1>>, RangeEnd, poss_positions,
                 pin_direction))

Queen_get_legal_moves(locs, self, moves, position, poss_positions, pin_info) ==
    Bind(Rook_get_legal_moves(locs, self, moves, position, poss_positions, pin_info),
         LAMBDA rook_moves :
         Bishop_get_legal_moves(locs, self, rook_moves, position, poss_positions,
                                pin_info))

\* King.get_legal_moves: for each direction in turn the move is appended when
\* its end square is on the board, the board simulate() returns is not in
\* check, and the end square (looked up on the receiver after simulate) is
\* empty or holds a piece that is not of the king's team
King_get_legal_moves(locs, player, self, moves, position, poss_positions, pin_info) ==
    LET end_position(n) == getmove(position, directions[n][1], directions[n][2])
        add(move) ==
            /\ is_on_board(move.end_position)
            /\ Bind(simulate(locs, player, move, FALSE), LAMBDA sim :
                  /\ ~check_info(sim.board.piece_locations,
                                 sim.board.current_player).in_check
                  /\ \/ check_for_piece(sim.self_locs, move.end_position) = None
                     \/ ~In(check_for_piece(sim.self_locs, move.end_position).color,
                            self.team))
    IN  moves \o SelectSeq([n \in 1..Len(directions) |->
                               Move(position, end_position(n))], add)

\* piece.get_legal_moves(board, moves, position, poss_positions, pin_info),
\* dispatched on the class of the piece
get_legal_moves(locs, player, self, moves, position, poss_positions, pin_info) ==
    CASE self.piece_name = "K" ->
            King_get_legal_moves(locs, player, self, moves, position, poss_positions,
                                 pin_info)
      [] self.piece_name = "P" ->
            Pawn_get_legal_moves(locs, self, moves, position, poss_positions, pin_info)
      [] self.piece_name = "N" ->
            Knight_get_legal_moves(locs, self, moves, position, poss_positions, pin_info)
      [] self.piece_name = "B" ->
            Bishop_get_legal_moves(locs, self, moves, position, poss_positions, pin_info)
      [] self.piece_name = "R" ->
            Rook_get_legal_moves(locs, self, moves, position, poss_positions, pin_info)
      [] self.piece_name = "Q" ->
            Queen_get_legal_moves(locs, self, moves, position, poss_positions, pin_info)

(***************************************************************************)
(* board.py: simulate, get_moves, is_game_over, score                      *)
(***************************************************************************)
\* Board(14, players, locations, current_player)
Board(locations, player) ==
    [piece_locations |-> locations, current_player |-> player, legal_moves |-> <<>>]

\* simulate that hands its own dict to the new board instead of a copy
simulate_shared(locs, player, move, switch) ==
    LET new_board == Board(locs, player)
        next      == switch_players(new_board.current_player)
    IN  Bind(make_move(new_board.piece_locations, move), LAMBDA made :
            [self_locs   |-> made.locs,
             self_player |-> player,
             raised      |-> made.raised,
             board       |->
                IF switch /\ ~made.raised
                THEN [piece_locations |-> made.locs,
                      current_player  |-> next,
                      legal_moves     |-> get_moves(made.locs, next,
                                                    new_board.legal_moves).legal_moves]
                ELSE [new_board EXCEPT !.piece_locations = made.locs]])

\* simulate: [board: the returned board, self_locs and self_player: the
\* receiver's piece_locations and current_player after the call, raised: TRUE
\* when make_move raised]
simulate(locs, player, move, switch) ==
    LET new_board == Board(DictCopy(locs), player)
        next      == switch_players(new_board.current_player)
    IN  Bind(make_move(new_board.piece_locations, move), LAMBDA made :
            [self_locs   |-> locs,
             self_player |-> player,
             raised      |-> made.raised,
             board       |->
                IF switch /\ ~made.raised
                THEN [piece_locations |-> made.locs,
                      current_player  |-> next,
                      legal_moves     |-> get_moves(made.locs, next,
                                                    new_board.legal_moves).legal_moves]
                ELSE [new_board EXCEPT !.piece_locations = made.locs]])

\* a pass of the loop of get_moves that lets every piece move when the king
\* is checked by several pieces
GetMovesStep_any_piece(locs, player, info, entry) ==
    IF info.in_check
    THEN IF Len(info.check_info) = 1
         THEN IF check_for_piece(locs, info.check_info[1][1]).piece_name = "N"
              THEN <<Move(entry.pos, info.check_info[1][1])>>
              ELSE Bind(block_or_capture(locs, player, info.check_info),
                        LAMBDA poss_positions :
                        get_legal_moves(locs, player, entry.piece, <<>>, entry.pos,
                                        poss_positions, None))
         ELSE get_legal_moves(locs, player, entry.piece, <<>>, entry.pos, None, None)
    ELSE get_legal_moves(locs, player, entry.piece, <<>>, entry.pos, None,
                         Some(info.pin_info))

\* one pass of the loop of get_moves, for an entry of the dict that holds a
\* piece of the current player: the moves the pass appends to legal_moves
\* (every generator returns the list it was given, extended)
GetMovesStep(locs, player, info, entry) ==
    IF info.in_check
    THEN IF Len(info.check_info) = 1
         THEN IF check_for_piece(locs, info.check_info[1][1]).piece_name = "N"
              THEN <<Move(entry.pos, info.check_info[1][1])>>
              ELSE Bind(block_or_capture(locs, player, info.check_info),
                        LAMBDA poss_positions :
                        get_legal_moves(locs, player, entry.piece, <<>>, entry.pos,
                                        poss_positions, None))
         ELSE IF entry.piece.piece_name = "K"
         THEN get_legal_moves(locs, player, entry.piece, <<>>, entry.pos, None, None)
         ELSE <<>>
    ELSE get_legal_moves(locs, player, entry.piece, <<>>, entry.pos, None,
                         Some(info.pin_info))

\* the lists lists[lo], ..., lists[hi] one after the other
RECURSIVE Concat(_, _, _)
Concat(lists, lo, hi) ==
    IF lo > hi THEN <<>>
    ELSE IF lo = hi THEN lists[lo]
    ELSE Concat(lists, lo, (lo + hi) \div 2) \o Concat(lists, ((lo + hi) \div 2) + 1, hi)

\* the loop of get_moves over piece_locations.keys(): [legal_moves: the field
\* afterwards, ret: the return value, None or Some(the list)].  own is the
\* entries the loop does not skip, in the order of the dict; `return None`
\* runs at the first of them when in_check comes with an empty check_info.
GetMovesLoop(locs, player, info, moves) ==
    LET own == SelectSeq(locs, LAMBDA entry : entry.piece.color = get_color(player))
        owned(entry) == TRUE
    IN  IF own # <<>> /\ info.in_check /\ Len(info.check_info) = 0
        THEN [legal_moves |-> moves, ret |-> None]
        ELSE Bind(SelectSeq([i \in 1..Len(own) |->
                                GetMovesStep(locs, player, info, own[i])], owned),
                  LAMBDA appended :
             Bind(moves \o Concat(appended, 1, Len(appended)), LAMBDA all :
                  [legal_moves |-> all, ret |-> Some(all)]))

\* get_moves: appends to the list legal_moves holds
get_moves(locs, player, moves) ==
    Bind(check_info(locs, player), LAMBDA info :
        GetMovesLoop(locs, player, info, moves))

(***************************************************************************)
(* players.py: the pieces at the start of the game                         *)
(***************************************************************************)
\* Rook("R", color, allies) and the like; id is the square the object is made for
Piece(piece_name, color, allies, ident) ==
    [piece_name |-> piece_name, color |-> color, team |-> allies, id |-> ident]

Pawn(color, direction, diag_left, diag_right, allies, start_position) ==
    [piece_name |-> "P", color |-> color, team |-> allies, id |-> start_position,
     direction |-> direction, diag_left_direction |-> diag_left,
     diag_right_direction |-> diag_right, start_position |-> start_position]

\* the body of the two loops of initialize_pieces: the piece put on
\* (row, column), None when no branch assigns one
InitialPiece(row, column, color, allies, direction, diag_left, diag_right) ==
    IF (row = 0 \/ row = 13) \/ (column = 0 \/ column = 13)
    THEN IF (row = 3 \/ row = 10) \/ (column = 3 \/ column = 10)
         THEN Piece("R", color, allies, Position(row, column))
         ELSE IF (row = 4 \/ row = 9) \/ (column = 4 \/ column = 9)
         THEN Piece("N", color, allies, Position(row, column))
         ELSE IF (row = 5 \/ row = 8) \/ (column = 5 \/ column = 8)
         THEN Piece("B", color, allies, Position(row, column))
         ELSE IF row = 6 \/ column = 6
         THEN IF In(color, "blueyellow")
              THEN Piece("K", color, allies, Position(row, column))
              ELSE Piece("Q", color, allies, Position(row, column))
         ELSE IF row = 7 \/ column = 7
         THEN IF In(color, "redgreen")
              THEN Piece("K", color, allies, Position(row, column))
              ELSE Piece("Q", color, allies, Position(row, column))
         ELSE None
    ELSE Pawn(color, direction, diag_left, diag_right, allies, Position(row, column))

\* initialize_pieces: rows x_range[1]..x_range[2]-1 outside, columns
\* y_range[1]..y_range[2]-1 inside.  Every cell visited is a new key of the
\* dict (the ranges of the four calls share no cell), so each assignment adds
\* its entry at the end.
initialize_pieces(x_range, y_range, color, allies, direction, diag_left, diag_right, locs) ==
    LET width  == y_range[2] - y_range[1]
        height == x_range[2] - x_range[1]
        cell(n) == Position(x_range[1] + ((n - 1) \div width),
                            y_range[1] + ((n - 1) % width))
        placed == [n \in 1..(width * height) |->
                     [pos   |-> cell(n),
                      piece |-> InitialPiece(cell(n)[1], cell(n)[2], color, allies,
                                             direction, diag_left, diag_right)]]
        assigned(entry) == entry.piece # None
    IN  locs \o SelectSeq(placed, assigned)

\* FourPlayerChess.__init__: Board(14, players, {}, 0) and the four calls
InitialLocations ==
    LET red    == initialize_pieces(<<12, 14>>, <<3, 11>>, "red", "redyellow",
                                    <<-1, 0>>, <<-1, -1>>, <<-1, 1>>, <<>>)
        blue   == initialize_pieces(<<3, 11>>, <<0, 2>>, "blue", "bluegreen",
                                    <<0, 1>>, <<-1, 1>>, <<1, 1>>, red)
        yellow == initialize_pieces(<<0, 2>>, <<3, 11>>, "yellow", "redyellow",
                                    <<1, 0>>, <<1, 1>>, <<1, -1>>, blue)
    IN  initialize_pieces(<<3, 11>>, <<12, 14>>, "green", "bluegreen",
                          <<0, -1>>, <<1, -1>>, <<-1, -1>>, yellow)

(***************************************************************************)
(* board.py: is_game_over; chess_engine.py: the steps of play()            *)
(***************************************************************************)
\* is_game_over: game_finished is the return value, message what it prints
is_game_over(locs, player, moves) ==
    IF Len(moves) = 0
    THEN [game_finished |-> TRUE,
          message |-> IF check_info(locs, player).in_check
                      THEN "checkmated" ELSE "stalemate"]
    ELSE [game_finished |-> FALSE, message |-> "none"]

\* play() that leaves the cache as it is before switch_players()
cleared_kept(moves) == moves

\* self.board.legal_moves = []
cleared(moves) == <<>>

\* mouse_handler; row and col are the pixel coordinates divided by sq_size
mouse_handler(selected_squares, row, col) ==
    IF \/ ~is_on_board(Position(row, col))
       \/ \E i \in DOMAIN selected_squares : selected_squares[i] = Position(row, col)
    THEN <<>>
    ELSE Append(selected_squares, Position(row, col))

\* player_move: [locs, legal_moves, selected_squares]
player_move(locs, player, moves, selected_squares) ==
    Bind(Move(selected_squares[1], selected_squares[2]), LAMBDA move :
    Bind(get_moves(locs, player, moves), LAMBDA got :
        IF MoveIn(move, got.legal_moves)
        THEN [locs |-> make_move(locs, move).locs,
              legal_moves |-> got.legal_moves,
              selected_squares |-> <<>>]
        ELSE [locs |-> locs,
              legal_moves |-> got.legal_moves,
              selected_squares |-> <<selected_squares[2]>>]))

\* the for loop over p.event.get(): [game_finished, selected_tiles, quit]
RECURSIVE HandleEvents(_, _, _, _)
HandleEvents(events, n, finished, selected) ==
    IF n > Len(events)
    THEN [game_finished |-> finished, selected_tiles |-> selected]
    ELSE IF events[n].type = "QUIT"
         THEN HandleEvents(events, n + 1, TRUE, selected)
         ELSE HandleEvents(events, n + 1, finished,
                           mouse_handler(selected, events[n].row, events[n].col))

(***************************************************************************)
(* Specification Spec: FourPlayerChess.__init__ followed by play(), with   *)
(* four random computer players (algorithm "1") or four human players.     *)
(***************************************************************************)
\* the squares between which the random player's choices are followed
Arena ==
    { <<12, 3>>, <<11, 3>>, <<10, 3>>, <<12, 6>>, <<11, 6>>, <<13, 7>>,
      <<7, 0>>, <<7, 1>>, <<7, 2>>,
      <<1, 3>>, <<2, 3>>, <<3, 3>>, <<4, 3>>,
      <<3, 12>>, <<3, 11>>, <<3, 10>>, <<3, 9>> }

\* the tiles a mouse click can land on; <<0, 0>> is off the board
Clicks == { <<12, 3>>, <<11, 3>>, <<0, 0>> }

Events ==
    {[type |-> "QUIT", row |-> 0, col |-> 0]}
    \cup {[type |-> "MOUSEBUTTONDOWN", row |-> c[1], col |-> c[2]] : c \in Clicks}

\* what p.event.get() can return in one pass of the loop
EventLists == UNION {[1..n -> Events] : n \in 0..MaxEvents}

Init ==
    /\ piece_locations = InitialLocations
    /\ current_player = 0
    /\ legal_moves = <<>>
    /\ selected_tiles = <<>>
    /\ game_finished = FALSE
    /\ opponent \in {"computer", "human"}
    /\ turns = 0
    /\ pc = "loop"
    /\ call = [op |-> "play"]
    /\ ret = None

\* computer branch: self.board.get_moves()
AIGetMoves ==
    /\ pc = "loop" /\ ~game_finished /\ opponent = "computer"
    /\ turns < MaxTurns
    /\ \E got \in {get_moves(piece_locations, current_player, legal_moves)} :
           /\ legal_moves' = got.legal_moves
           /\ ret' = got.ret
    /\ call' = [op |-> "get_moves"]
    /\ pc' = "ai_game_over"
    /\ UNCHANGED <<piece_locations, current_player, selected_tiles, game_finished,
                   opponent, turns>>

\* computer branch: game_finished = self.board.is_game_over()
AIGameOver ==
    /\ pc = "ai_game_over"
    /\ \E over \in {is_game_over(piece_locations, current_player, legal_moves)} :
           /\ game_finished' = over.game_finished
           /\ ret' = [value |-> over.game_finished, message |-> over.message]
           /\ pc' = IF over.game_finished THEN "events" ELSE "AI_move"
    /\ call' = [op |-> "is_game_over"]
    /\ UNCHANGED <<piece_locations, current_player, legal_moves, selected_tiles,
                   opponent, turns>>

\* AI_move: make_move of legal_moves[random.randint(0, len(legal_moves) - 1)]
AI_move ==
    /\ pc = "AI_move"
    /\ \E i \in DOMAIN legal_moves :
          /\ legal_moves[i].start_position \in Arena
          /\ legal_moves[i].end_position \in Arena
          /\ \E made \in {make_move(piece_locations, legal_moves[i])} :
                 /\ piece_locations' = made.locs
                 /\ ret' = [removed_piece |-> made.removed_piece]
          /\ call' = [op |-> "make_move", move |-> legal_moves[i]]
    /\ pc' = "clear"
    /\ UNCHANGED <<current_player, legal_moves, selected_tiles, game_finished,
                   opponent, turns>>

\* self.board.legal_moves = []
Clear ==
    /\ pc = "clear"
    /\ legal_moves' = cleared(legal_moves)
    /\ pc' = "switch_players"
    /\ UNCHANGED <<piece_locations, current_player, selected_tiles, game_finished,
                   opponent, turns, call, ret>>

\* self.board.switch_players()
Switch ==
    /\ pc = "switch_players"
    /\ current_player' = switch_players(current_player)
    /\ turns' = turns + 1
    /\ call' = [op |-> "switch_players"]
    /\ pc' = "events"
    /\ UNCHANGED <<piece_locations, legal_moves, selected_tiles, game_finished,
                   opponent, ret>>

\* human branch with two tiles selected: is_game_over(), then player_move and,
\* when it emptied the selection, the clearing of the cache and the switch
HumanTurn ==
    /\ pc = "loop" /\ ~game_finished /\ opponent = "human"
    /\ Len(selected_tiles) = 2
    /\ \E over \in {is_game_over(piece_locations, current_player, legal_moves)} :
           IF over.game_finished
           THEN /\ game_finished' = TRUE
                /\ ret' = [value |-> TRUE, message |-> over.message]
                /\ UNCHANGED <<piece_locations, current_player, legal_moves,
                               selected_tiles, turns>>
           ELSE \E moved \in {player_move(piece_locations, current_player,
                                           legal_moves, selected_tiles)} :
                LET done == Len(moved.selected_squares) = 0 IN
                /\ game_finished' = FALSE
                /\ ret' = [value |-> FALSE, message |-> over.message]
                /\ piece_locations' = moved.locs
                /\ selected_tiles' = moved.selected_squares
                /\ legal_moves' = IF done THEN cleared(moved.legal_moves)
                                  ELSE moved.legal_moves
                /\ current_player' = IF done THEN switch_players(current_player)
                                     ELSE current_player
                /\ turns' = IF done THEN turns + 1 ELSE turns
    /\ call' = [op |-> "is_game_over", selected_tiles |-> selected_tiles,
                 locs_before |-> piece_locations, player_before |-> current_player]
    /\ pc' = "events"
    /\ UNCHANGED opponent

\* human branch with fewer or more than two tiles selected: neither branch runs
HumanWait ==
    /\ pc = "loop" /\ ~game_finished /\ opponent = "human"
    /\ Len(selected_tiles) # 2
    /\ pc' = "events"
    /\ UNCHANGED <<piece_locations, current_player, legal_moves, selected_tiles,
                   game_finished, opponent, turns, call, ret>>

\* for e in p.event.get(): ...
HandleEventsStep ==
    /\ pc = "events"
    /\ \E events \in EventLists :
          \E handled \in {HandleEvents(events, 1, game_finished, selected_tiles)} :
              /\ game_finished' = handled.game_finished
              /\ selected_tiles' = handled.selected_tiles
              /\ call' = IF \E n \in DOMAIN events : events[n].type = "QUIT"
                         THEN [op |-> "QUIT"] ELSE call
    /\ pc' = "loop"
    /\ UNCHANGED <<piece_locations, current_player, legal_moves, opponent, turns, ret>>

\* while not game_finished: the loop ends, play() returns
Return ==
    /\ pc = "loop" /\ game_finished
    /\ pc' = "returned"
    /\ UNCHANGED <<piece_locations, current_player, legal_moves, selected_tiles,
                   game_finished, opponent, turns, call, ret>>

Next ==
    \/ AIGetMoves
    \/ AIGameOver
    \/ AI_move
    \/ Clear
    \/ Switch
    \/ HumanTurn
    \/ HumanWait
    \/ HandleEventsStep
    \/ Return

Spec == Init /\ [][Next]_vars

(***************************************************************************)
(* Properties of the game (specification Spec)                             *)
(***************************************************************************)
Colors == {"red", "blue", "yellow", "green"}

\* the squares holding the King of a colour
KingSquares(locs, color) ==
    {locs[i].pos : i \in {j \in DOMAIN locs : /\ locs[j].piece.piece_name = "K"
                                               /\ locs[j].piece.color = color}}

\* the squares strictly between from and to along the step <<dx, dy>>
Between(from, to, dx, dy) ==
    {<<from[1] + n * dx, from[2] + n * dy>> : n \in 1..13}
      \cap {sq \in (0..13) \X (0..13) :
              /\ (to[1] - sq[1]) * dx >= 0 /\ (to[2] - sq[2]) * dy >= 0
              /\ sq # to}

Sign(n) == IF n > 0 THEN 1 ELSE IF n < 0 THEN -1 ELSE 0

Abs(n) == IF n < 0 THEN -n ELSE n

\* the chess rule: the piece standing on from attacks the square to
Attacks(locs, from, to) ==
    LET piece == check_for_piece(locs, from)
        dx    == to[1] - from[1]
        dy    == to[2] - from[2]
        line  == from # to /\ (dx = 0 \/ dy = 0)
        diag  == from # to /\ Abs(dx) = Abs(dy)
        clear == \A sq \in Between(from, to, Sign(dx), Sign(dy)) :
                    is_on_board(sq) /\ check_for_piece(locs, sq) = None
    IN  CASE piece.piece_name = "R" -> line /\ clear
          [] piece.piece_name = "B" -> diag /\ clear
          [] piece.piece_name = "Q" -> (line \/ diag) /\ clear
          [] piece.piece_name = "N" -> {Abs(dx), Abs(dy)} = {1, 2}
          [] piece.piece_name = "K" -> from # to /\ Abs(dx) <= 1 /\ Abs(dy) <= 1
          [] piece.piece_name = "P" -> \/ <<dx, dy>> = piece.diag_left_direction
                                       \/ <<dx, dy>> = piece.diag_right_direction

\* the King of the player's colour stands on a square an enemy piece attacks
KingAttacked(locs, player) ==
    \E king \in KingSquares(locs, get_color(player)) :
        \E i \in DOMAIN locs :
            /\ ~In(get_color(player), locs[i].piece.team)
            /\ Attacks(locs, locs[i].pos, king)

\* C1: every move get_moves() appends to legal_moves is legality-preserving:
\* applying it to the current position leaves the mover's own king not
\* attacked by any enemy piece.
C1_LegalityPreserving ==
    (pc = "ai_game_over" /\ call.op = "get_moves") =>
        \A i \in DOMAIN legal_moves :
            ~KingAttacked(make_move(piece_locations, legal_moves[i]).locs,
                          current_player)

\* C2: in every position reachable from the initial placement through
\* legal_moves-selected moves, each of the four colours has exactly one King
\* on the board.
C2_KingsNeverCaptured ==
    \A color \in Colors : Cardinality(KingSquares(piece_locations, color)) = 1

\* C6: in play(), is_game_over() is only evaluated after get_moves() has run
\* for the current player on the current position, the first move attempt of
\* a human player included: when it ends the game, the cache it looked at is
\* the list of moves of that player in that position.
C6_GameOverOnFreshMoves ==
    (call.op = "is_game_over" /\ game_finished) =>
        legal_moves = get_moves(piece_locations, current_player, <<>>).legal_moves

\* C7: switch_players() sets current_player to (current_player + 1) mod 4 and
\* changes neither piece_locations nor legal_moves; current_player stays in
\* 0..3; the turns go red, blue, yellow, green, red, ...; four consecutive
\* switches return to the starting player.
C7_TurnRotation ==
    /\ [](/\ current_player \in 0..3
          /\ current_player = turns % 4
          /\ switch_players(switch_players(switch_players(switch_players(
                 current_player)))) = current_player)
    /\ [][pc = "switch_players" =>
             /\ current_player' = (current_player + 1) % 4
             /\ UNCHANGED <<piece_locations, legal_moves>>]_vars

\* C7 witness: four switches have been made and it is red's turn again
C7_Witness ==
    /\ turns = 4 /\ current_player = 0 /\ call.op = "switch_players"

\* C8: in the game loop legal_moves is empty at every execution of
\* switch_players(), so at the start of a player's turn the cache never
\* holds a move generated for another player or for an earlier position.
C8_CacheEmptyAtSwitch ==
    /\ pc = "switch_players" => legal_moves = <<>>
    /\ pc = "loop" =>
          \A i \in DOMAIN legal_moves :
              /\ check_for_piece(piece_locations, legal_moves[i].start_position) # None
              /\ check_for_piece(piece_locations,
                                 legal_moves[i].start_position).color
                   = get_color(current_player)

\* C8 witness: a move has been made, the cache is cleared, switch_players()
\* is about to run
C8_Witness ==
    /\ pc = "switch_players" /\ call.op = "make_move"
    /\ legal_moves = <<>> /\ turns = 2

(***************************************************************************)
(* Specification ApiSpec: the methods of Board called by a client (the     *)
(* search of players.py, King.get_legal_moves) on the board built by       *)
(* FourPlayerChess.__init__ and on the boards make_move() makes of it.     *)
(***************************************************************************)
\* the moves a client hands to make_move() and simulate(): from a pawn and a
\* queen to an empty square, to the mover's own square, to a square of the
\* mover's colour and to a square of an enemy
ApiStarts == { <<12, 6>>, <<7, 0>> }

ApiEnds == { <<12, 6>>, <<11, 6>>, <<13, 7>> }

ApiMoves == {Move(start, end) : start \in ApiStarts, end \in ApiEnds}

ApiInit ==
    /\ piece_locations = InitialLocations
    /\ current_player = 0
    /\ legal_moves = <<>>
    /\ selected_tiles = <<>>
    /\ game_finished = FALSE
    /\ opponent = "computer"
    /\ turns = 0
    /\ pc = "idle"
    /\ call = [op |-> "Board"]
    /\ ret = None

\* board.make_move(move), the start square holding a piece or not
ApiMakeMove ==
    /\ pc = "idle"
    /\ \E move \in ApiMoves :
          /\ \E made \in {make_move(piece_locations, move)} :
                /\ piece_locations' = made.locs
                /\ ret' = [removed_piece |-> made.removed_piece,
                           raised |-> made.raised]
          /\ call' = [op |-> "make_move", move |-> move,
                      locs_before |-> piece_locations]
    /\ pc' = "made"
    /\ UNCHANGED <<current_player, legal_moves, selected_tiles, game_finished,
                   opponent, turns>>

\* board.undo_move(move, removed_piece) with what make_move() returned (None
\* when it raised)
ApiUndoMove ==
    /\ pc = "made"
    /\ \E undone \in {undo_move(piece_locations, call.move, ret.removed_piece)} :
          /\ piece_locations' = undone.locs
          /\ ret' = [raised |-> undone.raised]
    /\ call' = [call EXCEPT !.op = "undo_move"]
    /\ pc' = "undone"
    /\ UNCHANGED <<current_player, legal_moves, selected_tiles, game_finished,
                   opponent, turns>>

\* the client keeps the move it made and goes on with the new position
ApiKeepMove ==
    /\ pc = "made" /\ ~ret.raised
    /\ turns < MaxMoves
    /\ turns' = turns + 1
    /\ pc' = "idle"
    /\ UNCHANGED <<piece_locations, current_player, legal_moves, selected_tiles,
                   game_finished, opponent, call, ret>>

\* board.switch_players()
ApiSwitchPlayers ==
    /\ pc = "idle"
    /\ current_player' = switch_players(current_player)
    /\ call' = [op |-> "switch_players"]
    /\ UNCHANGED <<piece_locations, legal_moves, selected_tiles, game_finished,
                   opponent, turns, pc, ret>>

\* board.get_moves()
ApiGetMoves ==
    /\ pc = "idle"
    /\ \E got \in {get_moves(piece_locations, current_player, legal_moves)} :
          /\ legal_moves' = got.legal_moves
          /\ ret' = got.ret
    /\ call' = [op |-> "get_moves", legal_moves_before |-> legal_moves]
    /\ pc' = "got_moves"
    /\ UNCHANGED <<piece_locations, current_player, selected_tiles, game_finished,
                   opponent, turns>>

\* board.get_moves() a second time in a row
ApiGetMovesAgain ==
    /\ pc = "got_moves"
    /\ \E got \in {get_moves(piece_locations, current_player, legal_moves)} :
          /\ legal_moves' = got.legal_moves
          /\ ret' = got.ret
    /\ call' = [op |-> "get_moves", legal_moves_before |-> legal_moves]
    /\ pc' = "got_moves_again"
    /\ UNCHANGED <<piece_locations, current_player, selected_tiles, game_finished,
                   opponent, turns>>

\* board.simulate(move, switch), the start square holding a piece
ApiSimulate ==
    /\ pc = "idle"
    /\ \E move \in ApiMoves, switch \in BOOLEAN :
          /\ check_for_piece(piece_locations, move.start_position) # None
          /\ \E sim \in {simulate(piece_locations, current_player, move, switch)} :
                /\ piece_locations' = sim.self_locs
                /\ current_player' = sim.self_player
                /\ ret' = [board |-> sim.board, raised |-> sim.raised]
          /\ call' = [op |-> "simulate", move |-> move, switch |-> switch,
                      locs_before |-> piece_locations,
                      player_before |-> current_player]
    /\ pc' = "simulated"
    /\ UNCHANGED <<legal_moves, selected_tiles, game_finished, opponent, turns>>

ApiNext ==
    \/ ApiMakeMove
    \/ ApiUndoMove
    \/ ApiKeepMove
    \/ ApiSwitchPlayers
    \/ ApiGetMoves
    \/ ApiGetMovesAgain
    \/ ApiSimulate

ApiSpec == ApiInit /\ [][ApiNext]_vars

\* C3: for every move whose start square holds a piece and whose end square
\* is any on-board square (empty, enemy-occupied or own-occupied),
\* r = make_move(m) followed by undo_move(m, r) restores piece_locations to
\* exactly the mapping it had before, piece objects included.
C3_MakeUndoRoundTrip ==
    (/\ pc = "undone"
     /\ check_for_piece(call.locs_before, call.move.start_position) # None
     /\ is_on_board(call.move.end_position)) =>
        Mapping(piece_locations) = Mapping(call.locs_before)

\* C4: simulate(move, switch) never changes the receiver's piece_locations or
\* current_player, with switch true and with switch false; only the returned
\* clone holds the move and, with switch true, the advanced turn and the
\* moves computed for it.
C4_SimulateLeavesReceiver ==
    pc = "simulated" =>
          /\ piece_locations = call.locs_before
          /\ current_player = call.player_before
          /\ legal_moves = <<>>
          /\ ret.board.piece_locations = make_move(call.locs_before, call.move).locs
          /\ ret.board.current_player =
                IF call.switch /\ ~ret.raised
                THEN (call.player_before + 1) % 4 ELSE call.player_before
          /\ ret.board.legal_moves =
                IF call.switch /\ ~ret.raised
                THEN get_moves(ret.board.piece_locations, ret.board.current_player,
                               <<>>).legal_moves
                ELSE <<>>

\* C4 witness: simulate(move, True) has returned a clone that differs from
\* the receiver in position and turn
C4_Witness ==
    /\ pc = "simulated" /\ call.switch /\ ~ret.raised
    /\ ret.board.current_player # current_player
    /\ Mapping(ret.board.piece_locations) # Mapping(piece_locations)
    /\ ret.board.legal_moves # <<>>

\* C5: get_moves() overwrites the cache: afterwards legal_moves is exactly
\* the list of the current player's moves in the current position whatever
\* the cache held before, so two calls in a row leave what one call leaves.
C5_GetMovesOverwrites ==
    pc = "got_moves_again" => legal_moves = call.legal_moves_before

(***************************************************************************)
(* Specification GeomSpec: is_on_board called on a freshly built board,    *)
(* with any coordinate pair of the grid and of a margin around it.         *)
(***************************************************************************)
Probes == (0 - Margin)..(13 + Margin)

GeomInit ==
    /\ piece_locations = InitialLocations
    /\ current_player = 0
    /\ legal_moves = <<>>
    /\ selected_tiles = <<>>
    /\ game_finished = FALSE
    /\ opponent = "computer"
    /\ turns = 0
    /\ pc = "call"
    /\ \E x \in Probes, y \in Probes :
          call = [op |-> "is_on_board", position |-> Position(x, y)]
    /\ ret = None

CallIsOnBoard ==
    /\ pc = "call"
    /\ call.op = "is_on_board"
    /\ ret' = [value |-> is_on_board(call.position)]
    /\ pc' = "return"
    /\ UNCHANGED <<piece_locations, current_player, legal_moves, selected_tiles,
                   game_finished, opponent, turns, call>>

GeomNext == CallIsOnBoard

GeomSpec == GeomInit /\ [][GeomNext]_vars

\* the cells of the 14x14 grid
Grid == (0..13) \X (0..13)

\* rows lo_x..hi_x with columns lo_y..hi_y
InBand(position, lo_x, hi_x, lo_y, hi_y) ==
    /\ lo_x <= position[1] /\ position[1] <= hi_x
    /\ lo_y <= position[2] /\ position[2] <= hi_y

\* one of the four n x n blocks in the corners of the grid
InCorner(position, n) ==
    /\ position \in Grid
    /\ (position[1] < n \/ position[1] > 13 - n)
    /\ (position[2] < n \/ position[2] > 13 - n)

\* C9: is_on_board(p) is true exactly when p lies in one of the three bands
\* (rows 3..10 with columns 0..13, rows 0..2 with columns 3..10, rows 11..13
\* with columns 3..10); exactly 160 of the 196 cells of the grid are on the
\* board; it is false for every coordinate outside the grid, negative ones
\* included.
C9_ThreeBands ==
    /\ (pc = "return" /\ call.op = "is_on_board") =>
          /\ ret.value = ( \/ InBand(call.position, 3, 10, 0, 13)
                           \/ InBand(call.position, 0, 2, 3, 10)
                           \/ InBand(call.position, 11, 13, 3, 10) )
          /\ (call.position \notin Grid => ret.value = FALSE)
    /\ Cardinality(Grid) = 196
    /\ Cardinality({p \in Grid : is_on_board(p)}) = 160

\* C9 witness: a probe with a negative coordinate has been answered
C9_Witness ==
    /\ pc = "return" /\ call.op = "is_on_board"
    /\ call.position = Position(-1, 5)
    /\ ret.value = FALSE

\* C10, four 3x3 corners: the playable board is the 14x14 grid minus four 3x3
\* corner blocks, a cross-shaped region.
C10_CrossThreeByThree ==
    (pc = "return" /\ call.op = "is_on_board") =>
        ret.value = (call.position \in Grid /\ ~InCorner(call.position, 3))

\* C10 witness: a cell of a 4x4 corner block that is not in the 3x3 block
\* has been answered as playable
C10_Witness ==
    /\ pc = "return" /\ call.op = "is_on_board"
    /\ call.position = Position(3, 3)
    /\ InCorner(call.position, 4)
    /\ ret.value = TRUE

\* C10 as stated: the playable board is the 14x14 grid minus four 4x4 corner
\* blocks.
C10_CrossFourByFour ==
    (pc = "return" /\ call.op = "is_on_board") =>
        ret.value = (call.position \in Grid /\ ~InCorner(call.position, 4))

(***************************************************************************)
(* Specification PieceSpec: get_legal_moves of one piece called on a board *)
(* that holds that piece alone (a Rook, a Bishop, on every square) or a   *)
(* King on any square and one enemy Rook.                                  *)
(***************************************************************************)
\* the squares of the board
OnBoard == {position \in Grid : is_on_board(position)}

\* a board that holds a red piece of the kind alone
LoneBoard(kind, position) ==
    << [pos |-> position, piece |-> Piece(kind, "red", "redyellow", position)] >>

\* a board that holds the red King and a blue Rook
KingRookBoard(king, rook) ==
    << [pos |-> king, piece |-> Piece("K", "red", "redyellow", king)],
       [pos |-> rook, piece |-> Piece("R", "blue", "bluegreen", rook)] >>

\* the squares the enemy Rook is put on: the outer rows and columns of the
\* board and two squares of its middle
RookSquares ==
    {position \in OnBoard : position[1] \in {0, 13} \/ position[2] \in {0, 13}}
      \cup {<<6, 6>>, <<7, 7>>}

PieceInit ==
    /\ current_player = 0
    /\ legal_moves = <<>>
    /\ selected_tiles = <<>>
    /\ game_finished = FALSE
    /\ opponent = "computer"
    /\ turns = 0
    /\ pc = "call"
    /\ ret = None
    /\ \E position \in OnBoard :
          /\ call = [op |-> "get_legal_moves", position |-> position]
          /\ \/ \E kind \in {"R", "B"} : piece_locations = LoneBoard(kind, position)
             \/ \E rook \in RookSquares \ {position} :
                   piece_locations = KingRookBoard(position, rook)

\* piece.get_legal_moves(board, [], position) for the piece on call.position
CallGetLegalMoves ==
    /\ pc = "call"
    /\ call.op = "get_legal_moves"
    /\ ret' = [moves |-> get_legal_moves(piece_locations, current_player,
                             check_for_piece(piece_locations, call.position),
                             <<>>, call.position, None, None)]
    /\ pc' = "return"
    /\ UNCHANGED <<piece_locations, current_player, legal_moves, selected_tiles,
                   game_finished, opponent, turns, call>>

PieceNext == CallGetLegalMoves

PieceSpec == PieceInit /\ [][PieceNext]_vars

\* the end squares of a list of moves
Destinations(moves) == {moves[i].end_position : i \in DOMAIN moves}

\* the squares of the board a ray from position with one of the steps reaches
\* before it leaves the board
Rays(position, steps) ==
    {square \in OnBoard :
        \E step \in steps, n \in 1..13 :
            /\ square = <<position[1] + n * step[1], position[2] + n * step[2]>>
            /\ \A t \in 1..n :
                  is_on_board(<<position[1] + t * step[1], position[2] + t * step[2]>>)}

\* the kind of the piece a board holds alone, "" for a board of several pieces
LoneKind ==
    IF Len(piece_locations) = 1 THEN piece_locations[1].piece.piece_name ELSE ""

\* C11: a Rook alone on the board, on any square: the destinations of
\* Rook.get_legal_moves are exactly the squares of the four orthogonal rays,
\* each up to the last square before the edge of the board.
C11_RookRays ==
    (pc = "return" /\ LoneKind = "R") =>
        Destinations(ret.moves)
          = Rays(call.position, {<<-1, 0>>, <<0, -1>>, <<1, 0>>, <<0, 1>>})

\* C12: a Bishop alone on the board, on any square: the destinations of
\* Bishop.get_legal_moves are all the squares of each of the four diagonals up
\* to the edge of the board, whatever the length of the diagonal.
C12_BishopRays ==
    (pc = "return" /\ LoneKind = "B") =>
        Destinations(ret.moves)
          = Rays(call.position, {<<-1, -1>>, <<-1, 1>>, <<1, -1>>, <<1, 1>>})

\* C13: a King and one enemy Rook on the board, in any placement: no move of
\* King.get_legal_moves ends on a square of the rook's rank or file with only
\* empty squares between the rook and it, the king's start square vacated.
C13_KingAvoidsRook ==
    (pc = "return" /\ Len(piece_locations) = 2) =>
        \A i \in DOMAIN ret.moves :
            ~KingAttacked(make_move(piece_locations, ret.moves[i]).locs,
                          current_player)

(***************************************************************************)
(* Specification PositionSpec: check_info() and get_moves() called on a   *)
(* board built with Board(14, players, locations, 0) that holds the red    *)
(* King, a blue piece, and up to two further pieces around the king.       *)
(***************************************************************************)
\* the squares the pieces other than the king are put on: the neighbourhood
\* of the king's square <<6, 4>> on its rays and knight offsets
PositionSquares ==
    { <<6, 5>>, <<6, 6>>, <<5, 5>>, <<4, 6>>, <<5, 4>>, <<4, 5>>, <<7, 5>>,
      <<7, 3>>, <<5, 3>>, <<8, 5>> }

\* a blue piece made for the square, pawns with the directions blue's pawns get
BluePiece(kind, position) ==
    IF kind = "P"
    THEN Pawn("blue", <<0, 1>>, <<-1, 1>>, <<1, 1>>, "bluegreen", position)
    ELSE Piece(kind, "blue", "bluegreen", position)

\* a red piece made for the square, pawns with the directions red's pawns get
RedPiece(kind, position) ==
    IF kind = "P"
    THEN Pawn("red", <<-1, 0>>, <<-1, -1>>, <<-1, 1>>, "redyellow", position)
    ELSE Piece(kind, "red", "redyellow", position)

\* the red King in the middle of the board and a blue piece
KingAndBlue(kind, position) ==
    <<[pos |-> <<6, 4>>, piece |-> RedPiece("K", <<6, 4>>)],
      [pos |-> position, piece |-> BluePiece(kind, position)]>>

\* the boards with the king in the middle of the board and one blue piece,
\* alone or with a red piece
NearBoards ==
    {KingAndBlue(kind, position) \o second :
        kind \in {"R", "B", "Q", "N", "P", "K"}, position \in PositionSquares,
        second \in {<<>>}
           \cup {<<[pos |-> red, piece |-> RedPiece(red_kind, red)]>> :
                    red_kind \in {"P", "B", "N"}, red \in PositionSquares}}

\* the boards with the king in the middle of the board, two blue pieces and a
\* red Knight off the king's rays
DoubleBoards ==
    {KingAndBlue(kind, position)
       \o <<[pos |-> blue, piece |-> BluePiece(blue_kind, blue)],
            [pos |-> <<8, 3>>, piece |-> RedPiece("N", <<8, 3>>)]>> :
        kind \in {"R", "B", "Q", "N"}, position \in PositionSquares,
        blue_kind \in {"R", "N"}, blue \in PositionSquares}

\* the boards with the king on the edge and a blue piece on the far end of
\* its row, with or without a red Knight between them
FarBoards ==
    {<<[pos |-> <<5, 0>>, piece |-> RedPiece("K", <<5, 0>>)],
       [pos |-> position, piece |-> BluePiece(kind, position)]>> \o second :
        kind \in {"R", "B", "Q"}, position \in {<<5, 12>>, <<5, 13>>},
        second \in {<<>>, <<[pos |-> <<5, 6>>, piece |-> RedPiece("N", <<5, 6>>)]>>}}

\* a dict has one entry for a key
DistinctKeys(locs) ==
    \A i, j \in DOMAIN locs : locs[i].pos = locs[j].pos => i = j

PositionInit ==
    /\ piece_locations \in {locs \in NearBoards \cup DoubleBoards \cup FarBoards :
                              DistinctKeys(locs)}
    /\ current_player = 0
    /\ legal_moves = <<>>
    /\ selected_tiles = <<>>
    /\ game_finished = FALSE
    /\ opponent = "computer"
    /\ turns = 0
    /\ pc = "position"
    /\ call = [op |-> "Board"]
    /\ ret = None

\* board.check_info()
CallCheckInfo ==
    /\ pc = "position"
    /\ ret' = check_info(piece_locations, current_player)
    /\ call' = [op |-> "check_info"]
    /\ pc' = "checked"
    /\ UNCHANGED <<piece_locations, current_player, legal_moves, selected_tiles,
                   game_finished, opponent, turns>>

\* board.get_moves()
CallGetMoves ==
    /\ pc = "checked"
    /\ \E got \in {get_moves(piece_locations, current_player, legal_moves)} :
          /\ legal_moves' = got.legal_moves
          /\ ret' = got.ret
    /\ call' = [op |-> "get_moves"]
    /\ pc' = "got"
    /\ UNCHANGED <<piece_locations, current_player, selected_tiles, game_finished,
                   opponent, turns>>

PositionNext ==
    \/ CallCheckInfo
    \/ CallGetMoves

PositionSpec == PositionInit /\ [][PositionNext]_vars

\* the square of the King of the side to move
OwnKing == CHOOSE king \in KingSquares(piece_locations, get_color(current_player)) : TRUE

\* the entries of the pieces of the side to move and of its enemies
OwnEntries ==
    {piece_locations[i] : i \in {j \in DOMAIN piece_locations :
        piece_locations[j].piece.color = get_color(current_player)}}

EnemyEntries ==
    {piece_locations[i] : i \in {j \in DOMAIN piece_locations :
        ~In(get_color(current_player), piece_locations[j].piece.team)}}

\* the squares strictly between two squares of a rank, file or diagonal, and
\* the step from the first towards the second
StepTo(from, to) == <<Sign(to[1] - from[1]), Sign(to[2] - from[2])>>

Aligned(from, to) ==
    /\ from # to
    /\ \/ from[1] = to[1] \/ from[2] = to[2]
       \/ Abs(to[1] - from[1]) = Abs(to[2] - from[2])

Inside(from, to) == Between(from, to, StepTo(from, to)[1], StepTo(from, to)[2])

\* C16: check_info reports in_check exactly when an enemy piece attacks the
\* king of the side to move: a rook or queen on a rank or file and a bishop
\* or queen on a diagonal at any distance with only empty squares between, a
\* pawn one step away whose capture direction points at the king, a king one
\* step away, a knight on a knight offset.
C16_CheckInfoDetectsAttacks ==
    (pc = "checked" /\ call.op = "check_info") =>
        ret.in_check = KingAttacked(piece_locations, current_player)

\* C17: when check_info lists two or more checking pieces, every move of
\* get_moves() starts on the king's square, and the position each of them
\* leads to passes the king's lookahead (check_info on it reports no check).
C17_DoubleCheckKingOnly ==
    (pc = "got" /\ Len(check_info(piece_locations, current_player).check_info) >= 2) =>
        \A i \in DOMAIN legal_moves :
            /\ legal_moves[i].start_position = OwnKing
            /\ ~check_info(make_move(piece_locations, legal_moves[i]).locs,
                           current_player).in_check

\* C17 witness: a double check answered with at least one king move while a
\* further piece of the side to move stands on the board
C17_Witness ==
    /\ pc = "got"
    /\ Len(check_info(piece_locations, current_player).check_info) >= 2
    /\ legal_moves # <<>>
    /\ Cardinality(OwnEntries) >= 2

\* C14: in check from exactly one piece that is not a knight, every move of
\* get_moves() that is not a king move ends on the checker's square or on a
\* square between the king and the checker; a piece that reaches none of
\* these squares gets no move.  Pawn moves of every sort are included.
C14_SingleCheckBlockOrCapture ==
    LET info == check_info(piece_locations, current_player)
    IN  (/\ pc = "got"
         /\ info.in_check /\ Len(info.check_info) = 1
         /\ check_for_piece(piece_locations, info.check_info[1][1]).piece_name # "N")
        => \A i \in DOMAIN legal_moves :
              legal_moves[i].start_position # OwnKing =>
                  legal_moves[i].end_position
                     \in Inside(OwnKing, info.check_info[1][1])
                           \cup {info.check_info[1][1]}

\* an enemy piece that attacks along the line from its square to the king
SlidesAt(entry, king) ==
    /\ Aligned(entry.pos, king)
    /\ \/ entry.piece.piece_name = "Q"
       \/ entry.piece.piece_name = "R" /\ 0 \in {StepTo(king, entry.pos)[1],
                                                 StepTo(king, entry.pos)[2]}
       \/ entry.piece.piece_name = "B" /\ 0 \notin {StepTo(king, entry.pos)[1],
                                                    StepTo(king, entry.pos)[2]}

\* the piece of own is the only piece between the king and the enemy piece
PinnedBy(own, enemy) ==
    /\ own.pos # OwnKing
    /\ SlidesAt(enemy, OwnKing)
    /\ own.pos \in Inside(OwnKing, enemy.pos)
    /\ \A square \in Inside(OwnKing, enemy.pos) :
          /\ is_on_board(square)
          /\ square # own.pos => check_for_piece(piece_locations, square) = None

\* C15: not in check, a piece of the side to move that is the only piece
\* between its king and an enemy rook, bishop or queen attacking along that
\* line is recorded as pinned by check_info, and get_moves() gives it only
\* moves along the line of the pin, in either direction.
C15_PinsEnforced ==
    LET info == check_info(piece_locations, current_player)
    IN  (pc = "got" /\ ~info.in_check) =>
            \A own \in OwnEntries, enemy \in EnemyEntries :
                PinnedBy(own, enemy) =>
                    /\ \E n \in DOMAIN info.pin_info : info.pin_info[n].key = own.piece
                    /\ \A i \in DOMAIN legal_moves :
                          legal_moves[i].start_position = own.pos =>
                              /\ Aligned(OwnKing, legal_moves[i].end_position)
                              /\ StepTo(OwnKing, legal_moves[i].end_position)
                                    = StepTo(OwnKing, enemy.pos)

(***************************************************************************)
(* Further properties of Spec                                              *)
(***************************************************************************)
\* C18: in every position reached by playing moves taken from get_moves(),
\* check_info never returns in_check together with an empty check list, and
\* get_moves never takes the branch that returns None.
C18_InCheckHasChecker ==
    (pc = "ai_game_over" /\ call.op = "get_moves") =>
        /\ ~(/\ check_info(piece_locations, current_player).in_check
             /\ Len(check_info(piece_locations, current_player).check_info) = 0)
        /\ ret # None

\* C20: a human's attempt at a move that is not a legal move is not fatal:
\* after the pass of the loop that handles it, piece_locations and
\* current_player are as before, the game is not finished, and the selection
\* is the second square clicked.
C20_IllegalAttemptNotFatal ==
    (/\ pc = "events" /\ opponent = "human" /\ call.op = "is_game_over"
     /\ ~MoveIn(Move(call.selected_tiles[1], call.selected_tiles[2]),
                get_moves(call.locs_before, call.player_before, <<>>).legal_moves))
    => /\ piece_locations = call.locs_before
       /\ current_player = call.player_before
       /\ ~game_finished
       /\ selected_tiles = <<call.selected_tiles[2]>>

(***************************************************************************)
(* Further properties of ApiSpec                                           *)
(***************************************************************************)
\* C19: for every move between two squares of the board, make_move and
\* undo_move finish with a return value and raise no exception, the start
\* square holding a piece or not, the start square being the end square or
\* not.
C19_NoBoardOperationFaults ==
    (/\ pc \in {"made", "undone"}
     /\ is_on_board(call.move.start_position)
     /\ is_on_board(call.move.end_position)) => ~ret.raised

(***************************************************************************)
(* board.py: score; players.py: RandomComputerPlayer.alpha_beta and        *)
(* get_ordered_moves.  A board is the record Board() makes.  The player    *)
(* object is the record [best_move, complexity].                           *)
(***************************************************************************)
\* float('inf'): larger than the material on any board
Infinity == 1000

\* the depth play() searches to with algorithm "2"
PlayDepth == 4

\* Pawn.get_score, Knight.get_score, ... of pieces.py
get_score(piece) ==
    CASE piece.piece_name = "P" -> 1
      [] piece.piece_name = "N" -> 3
      [] piece.piece_name = "B" -> 5
      [] piece.piece_name = "R" -> 5
      [] piece.piece_name = "Q" -> 9
      [] piece.piece_name = "K" -> 0

\* the term a piece adds to score() when only the player's own colour counts
ScoreTerm_own_colour(player, piece) ==
    IF get_color(player) = piece.color THEN get_score(piece) ELSE 0 - get_score(piece)

\* the term a piece adds to score()
ScoreTerm(player, piece) ==
    IF In(get_color(player), piece.team) THEN get_score(piece) ELSE 0 - get_score(piece)

\* the loop of score() over the values lo..hi of the dict
RECURSIVE ScoreRange(_, _, _, _)
ScoreRange(locs, player, lo, hi) ==
    IF lo > hi THEN 0
    ELSE IF lo = hi THEN ScoreTerm(player, locs[lo].piece)
    ELSE ScoreRange(locs, player, lo, (lo + hi) \div 2)
         + ScoreRange(locs, player, ((lo + hi) \div 2) + 1, hi)

\* score()
score(locs, player) == ScoreRange(locs, player, 1, Len(locs))

\* get_ordered_moves: sorted(board.legal_moves, key=order, reverse=True), a
\* stable sort: moves of equal key keep the order they have in legal_moves
get_ordered_moves(board) ==
    LET moves == board.legal_moves
        order(move) == score(simulate(board.piece_locations, board.current_player,
                                      move, FALSE).board.piece_locations,
                             board.current_player)
    IN  Bind([i \in DOMAIN moves |-> order(moves[i])], LAMBDA keys :
            LET rank(i) == 1 + Cardinality({j \in DOMAIN moves :
                                   keys[j] > keys[i] \/ (keys[j] = keys[i] /\ j < i)})
            IN  [r \in DOMAIN moves |-> moves[CHOOSE i \in DOMAIN moves : rank(i) = r]])

\* `if score > best_score` that takes the smaller score
Improves_smaller(score_, best_score) == score_ < best_score

\* if score > best_score
Improves(score_, best_score) == score_ > best_score

\* a cutoff taken as soon as some move has been scored
Cutoff_first_move(alpha, beta) == alpha > 0 - Infinity

\* if alpha >= beta: break
Cutoff(alpha, beta) == alpha >= beta

RECURSIVE alpha_beta(_, _, _, _, _, _)
RECURSIVE AlphaBetaLoop(_, _, _, _, _, _, _, _, _)

\* the for loop of alpha_beta from ordered_moves[i] on; self is the player
\* object and board the receiver of simulate as the passes before left them
AlphaBetaLoop(self, board, ordered_moves, i, depth, initial_depth, best_score, alpha, beta) ==
    IF i > Len(ordered_moves)
    THEN [value |-> best_score, self |-> self, board |-> board]
    ELSE Bind(simulate(board.piece_locations, board.current_player,
                       ordered_moves[i], TRUE), LAMBDA sim :
         Bind(alpha_beta(self, sim.board, depth - 1, initial_depth, 0 - beta, 0 - alpha),
              LAMBDA sub :
              LET score_     == 0 - sub.value
                  better     == Improves(score_, best_score)
                  new_best   == IF better THEN score_ ELSE best_score
                  new_self   == IF better /\ depth = initial_depth
                                THEN [sub.self EXCEPT !.best_move = ordered_moves[i]]
                                ELSE sub.self
                  new_alpha  == IF new_best > alpha THEN new_best ELSE alpha
                  new_board  == [board EXCEPT !.piece_locations = sim.self_locs,
                                              !.current_player = sim.self_player]
              IN  IF Cutoff(new_alpha, beta)
                  THEN [value |-> new_best, self |-> new_self, board |-> new_board]
                  ELSE AlphaBetaLoop(new_self, new_board, ordered_moves, i + 1, depth,
                                     initial_depth, new_best, new_alpha, beta)))

\* alpha_beta: [value: the return value, self: the player object afterwards,
\* board: the board it was called on afterwards].  legal_moves of a board is
\* a list, never None.
alpha_beta(self, board, depth, initial_depth, alpha, beta) ==
    LET counted == [self EXCEPT !.complexity = @ + 1]
    IN  IF depth = 0
        THEN [value |-> score(board.piece_locations, board.current_player),
              self |-> counted, board |-> board]
        ELSE AlphaBetaLoop(counted, board, get_ordered_moves(board), 1, depth,
                           initial_depth, 0 - Infinity, alpha, beta)

\* RandomComputerPlayer.play with algorithm "1" (index is what randint
\* returns) and "2": [move: the return value, self: the player object and
\* board: the board afterwards]
play(self, algorithm, board, index) ==
    IF algorithm = "1"
    THEN [move |-> board.legal_moves[index], self |-> self, board |-> board]
    ELSE Bind(alpha_beta(self, board, PlayDepth, PlayDepth, 0 - Infinity, Infinity),
              LAMBDA searched :
              [move |-> searched.self.best_move, self |-> searched.self,
               board |-> searched.board])

(***************************************************************************)
(* Specification SearchSpec: a board with the four kings in the corners of *)
(* the cross and a few more pieces, red to move, as play() has it when it  *)
(* calls AI_move (get_moves() done); then one call of score(), of          *)
(* alpha_beta or of RandomComputerPlayer.play.                             *)
(***************************************************************************)
\* the largest depth alpha_beta is called with directly
MaxDepth == 2

\* a yellow piece made for the square
YellowPiece(kind, position) ==
    IF kind = "P"
    THEN Pawn("yellow", <<1, 0>>, <<1, 1>>, <<1, -1>>, "redyellow", position)
    ELSE Piece(kind, "yellow", "redyellow", position)

\* a green piece made for the square
GreenPiece(kind, position) ==
    IF kind = "P"
    THEN Pawn("green", <<0, -1>>, <<1, -1>>, <<-1, -1>>, "bluegreen", position)
    ELSE Piece(kind, "green", "bluegreen", position)

\* one entry of piece_locations
Entry(piece) == [pos |-> piece.id, piece |-> piece]

\* the four kings, each in a corner of its arm of the cross
CornerKings ==
    <<Entry(RedPiece("K", <<13, 3>>)), Entry(BluePiece("K", <<3, 0>>)),
      Entry(YellowPiece("K", <<0, 3>>)), Entry(GreenPiece("K", <<3, 13>>))>>

\* the kings, with or without a red and a blue pawn on their start squares
PawnBoards ==
    {CornerKings \o red \o blue :
        red  \in {<<>>, <<Entry(RedPiece("P", <<12, 5>>))>>},
        blue \in {<<>>, <<Entry(BluePiece("P", <<5, 1>>))>>}}

\* the kings and a blue Queen next to the yellow King's corner
QueenBoards ==
    {CornerKings \o <<Entry(BluePiece("Q", queen))>> \o red :
        queen \in {<<2, 4>>},
        red   \in {<<>>, <<Entry(RedPiece("P", <<12, 5>>))>>}}

\* the squares the enemy piece of a CaptureBoard stands on
CaptureSquares == { <<11, 4>>, <<10, 6>>, <<12, 8>>, <<9, 5>> }

\* the kings, a red piece on <<12, 5>>, put into the dict before or after
\* the kings, and a blue or green piece near it
CaptureBoards ==
    {IF first THEN <<Entry(RedPiece(kind, <<12, 5>>))>> \o CornerKings \o <<enemy>>
              ELSE CornerKings \o <<Entry(RedPiece(kind, <<12, 5>>)), enemy>> :
        first \in BOOLEAN, kind \in {"P", "N", "R"},
        enemy \in {Entry(BluePiece(enemy_kind, square)) :
                      enemy_kind \in {"N", "Q"}, square \in CaptureSquares}
              \cup {Entry(GreenPiece("R", square)) : square \in CaptureSquares}}

\* the kings, a red pawn on its start square and a blue Knight that attacks
\* it or not
TacticBoards ==
    {CornerKings \o <<Entry(RedPiece("P", <<12, 5>>)), Entry(BluePiece("N", knight))>> :
        knight \in {<<10, 4>>, <<10, 6>>, <<9, 5>>}}

\* the boards play() searches to PlayDepth
DeepBoards == PawnBoards \cup QueenBoards \cup TacticBoards

\* best_move before the call: None in a new player, the move of an earlier
\* turn afterwards
EarlierMoves == {None, Move(<<13, 4>>, <<13, 3>>)}

SearchInit ==
    /\ piece_locations \in DeepBoards \cup CaptureBoards
    /\ current_player = 0
    /\ legal_moves = get_moves(piece_locations, current_player, <<>>).legal_moves
    /\ selected_tiles = <<>>
    /\ game_finished = FALSE
    /\ opponent = "computer"
    /\ turns = 0
    /\ pc = "board"
    /\ \E best_move \in EarlierMoves :
          call = [op |-> "get_moves", self |-> [best_move |-> best_move, complexity |-> 0]]
    /\ ret = None

\* board.score()
CallScore ==
    /\ pc = "board"
    /\ ret' = [value |-> score(piece_locations, current_player)]
    /\ call' = [op |-> "score", self |-> call.self]
    /\ pc' = "scored"
    /\ UNCHANGED <<piece_locations, current_player, legal_moves, selected_tiles,
                   game_finished, opponent, turns>>

\* player.alpha_beta(board, depth, depth, float('-inf'), float('inf'))
CallAlphaBeta ==
    /\ pc = "board"
    /\ \E depth \in 1..MaxDepth :
          /\ depth = 1 \/ piece_locations \in DeepBoards
          /\ \E searched \in {alpha_beta(call.self,
                                         [piece_locations |-> piece_locations,
                                          current_player |-> current_player,
                                          legal_moves |-> legal_moves],
                                         depth, depth, 0 - Infinity, Infinity)} :
                /\ ret' = [value |-> searched.value, self |-> searched.self]
                /\ piece_locations' = searched.board.piece_locations
                /\ current_player' = searched.board.current_player
                /\ legal_moves' = searched.board.legal_moves
          /\ call' = [op |-> "alpha_beta", self |-> call.self, depth |-> depth,
                      board |-> [piece_locations |-> piece_locations,
                                 current_player |-> current_player,
                                 legal_moves |-> legal_moves]]
    /\ pc' = "searched"
    /\ UNCHANGED <<selected_tiles, game_finished, opponent, turns>>

\* player.play(board) with algorithm "1" or "2"
CallPlay ==
    /\ pc = "board"
    /\ piece_locations \in DeepBoards
    /\ \E algorithm \in {"1", "2"}, index \in DOMAIN legal_moves :
          /\ algorithm = "2" => index = 1
          /\ \E played \in {play(call.self, algorithm,
                                 [piece_locations |-> piece_locations,
                                  current_player |-> current_player,
                                  legal_moves |-> legal_moves], index)} :
                /\ ret' = [move |-> played.move, self |-> played.self]
                /\ piece_locations' = played.board.piece_locations
                /\ current_player' = played.board.current_player
                /\ legal_moves' = played.board.legal_moves
          /\ call' = [op |-> "play", self |-> call.self, algorithm |-> algorithm,
                      board |-> [piece_locations |-> piece_locations,
                                 current_player |-> current_player,
                                 legal_moves |-> legal_moves]]
    /\ pc' = "played"
    /\ UNCHANGED <<selected_tiles, game_finished, opponent, turns>>

\* chess_engine.py, RandomComputerPlayer.monte_carlo: what it leaves in
\* legal_moves of the board it is given.  The first pass of its loop runs
\* rollout(root), whose first statement is node.board.get_moves() on the
\* root's board, the board given; with no move found every later pass does
\* the same and finds none again, otherwise the later passes descend into
\* root.children, whose boards simulate() made.
engine_monte_carlo(board) ==
    get_moves(board.piece_locations, board.current_player, board.legal_moves).legal_moves

\* chess_engine.py, player.play(board) with algorithm "3".  The rollouts
\* play random moves until a board without legal moves comes up, as deep as
\* the recursion limit allows: the call raises, or returns
\* board.legal_moves[k], k the index of a child of the root.
CallEnginePlay ==
    /\ pc = "board"
    /\ piece_locations \in DeepBoards
    /\ legal_moves' = engine_monte_carlo([piece_locations |-> piece_locations,
                                          current_player |-> current_player,
                                          legal_moves |-> legal_moves])
    /\ \E k \in 0..Len(legal_moves') :
          ret' = [move |-> IF k = 0 THEN None ELSE legal_moves'[k],
                  raised |-> (k = 0), self |-> call.self]
    /\ call' = [op |-> "play", self |-> call.self, algorithm |-> "3",
                 board |-> [piece_locations |-> piece_locations,
                            current_player |-> current_player,
                            legal_moves |-> legal_moves]]
    /\ pc' = "played"
    /\ UNCHANGED <<piece_locations, current_player, selected_tiles, game_finished,
                   opponent, turns>>

SearchNext ==
    \/ CallScore
    \/ CallAlphaBeta
    \/ CallPlay
    \/ CallEnginePlay

SearchSpec == SearchInit /\ [][SearchNext]_vars

(***************************************************************************)
(* Properties of the search (specification SearchSpec)                     *)
(***************************************************************************)
\* the board the call of alpha_beta or play was made on
GivenBoard == call.board

\* C27, score() is zero-sum between the teams: on every placement, score()
\* seen by a player is minus score() seen by the next player in the turn
\* order and equals score() seen by the player after that; the value the
\* call returned is the one of the current player.
C27_ScoreZeroSum ==
    pc = "scored" =>
        /\ ret.value = score(piece_locations, current_player)
        /\ \A p \in 0..3 :
              /\ score(piece_locations, p)
                    = 0 - score(piece_locations, switch_players(p))
              /\ score(piece_locations, p)
                    = score(piece_locations, switch_players(switch_players(p)))

\* score() was called on a board where both teams have material and the
\* balance is not zero
C27_Witness ==
    /\ pc = "scored"
    /\ ret.value < 0
    /\ \E i, j \in DOMAIN piece_locations :
          /\ piece_locations[i].piece.color = "red"
          /\ get_score(piece_locations[i].piece) > 0
          /\ piece_locations[j].piece.color = "blue"
          /\ get_score(piece_locations[j].piece) > 0

\* the move takes a piece off the board
IsCapture(board, move) == check_for_piece(board.piece_locations, move.end_position) # None

\* what the move adds to the mover's material balance
Gain(board, move) ==
    score(make_move(board.piece_locations, move).locs, board.current_player)
    - score(board.piece_locations, board.current_player)

\* the indices of the captures among the legal moves of the board
CaptureIndices(board) ==
    {i \in DOMAIN board.legal_moves : IsCapture(board, board.legal_moves[i])}

\* the legal moves hold exactly one capture, it wins material, and there is
\* a move that captures nothing
OneWinningCapture(board) ==
    /\ Cardinality(CaptureIndices(board)) = 1
    /\ \A i \in CaptureIndices(board) : Gain(board, board.legal_moves[i]) > 0
    /\ CaptureIndices(board) # DOMAIN board.legal_moves

\* C21, alpha-beta at depth 1 takes the winning capture: called with
\* depth = initial_depth = 1 and the window -infinity..+infinity on a board
\* whose legal moves hold exactly one capture, which raises the mover's
\* material balance, next to moves that capture nothing, alpha_beta sets
\* best_move to that capture, wherever it stands in legal_moves.
C21_DepthOneTakesCapture ==
    (pc = "searched" /\ call.depth = 1 /\ OneWinningCapture(GivenBoard)) =>
        \A i \in CaptureIndices(GivenBoard) :
            /\ ret.self.best_move = GivenBoard.legal_moves[i]
            /\ ret.value = score(GivenBoard.piece_locations, GivenBoard.current_player)
                           + Gain(GivenBoard, GivenBoard.legal_moves[i])

\* the depth-1 search ran on a board where the winning capture is neither
\* the first nor the last legal move and best_move held an earlier move
C21_Witness ==
    /\ pc = "searched" /\ call.depth = 1
    /\ OneWinningCapture(GivenBoard)
    /\ 1 \notin CaptureIndices(GivenBoard)
    /\ Len(GivenBoard.legal_moves) \notin CaptureIndices(GivenBoard)
    /\ call.self.best_move # None
    /\ ret.self.best_move # call.self.best_move

\* plain negamax of the given depth: every legal move is scanned in the
\* order of get_ordered_moves and no cutoff is taken.  [value, best: the
\* index in that order of the first move of the largest score, 0 when no
\* move scores above -infinity, nodes: the number of positions visited]
RECURSIVE Negamax(_, _)
Negamax(board, depth) ==
    IF depth = 0
    THEN [value |-> score(board.piece_locations, board.current_player),
          best |-> 0, nodes |-> 1]
    ELSE Bind(get_ordered_moves(board), LAMBDA ordered :
         Bind([i \in DOMAIN ordered |->
                  Negamax(simulate(board.piece_locations, board.current_player,
                                   ordered[i], TRUE).board, depth - 1)],
              LAMBDA subs :
              LET scores == [i \in DOMAIN ordered |-> 0 - subs[i].value]
                  top    == IF DOMAIN ordered = {} THEN 0 - Infinity
                            ELSE CHOOSE v \in {scores[i] : i \in DOMAIN ordered} :
                                    \A i \in DOMAIN ordered : scores[i] <= v
                  firsts == {i \in DOMAIN ordered : scores[i] = top}
                  RECURSIVE Total(_)
                  Total(i) == IF i = 0 THEN 1 ELSE subs[i].nodes + Total(i - 1)
              IN  [value |-> top,
                   best  |-> IF top > 0 - Infinity THEN Min(firsts) ELSE 0,
                   nodes |-> Total(Len(ordered))]))

\* best_move as plain negamax leaves it
NegamaxBestMove(board, depth, best_move) ==
    Bind(Negamax(board, depth), LAMBDA plain :
        IF plain.best = 0 THEN best_move ELSE get_ordered_moves(board)[plain.best])

\* C26, pruning does not change the result: alpha_beta(board, d, d,
\* -infinity, +infinity) returns the value of the plain negamax of depth d
\* that scans every move in the same order without the cutoff, and leaves
\* the same best_move.
C26_PruningKeepsResult ==
    pc = "searched" =>
        /\ ret.value = Negamax(GivenBoard, call.depth).value
        /\ ret.self.best_move
              = NegamaxBestMove(GivenBoard, call.depth, call.self.best_move)

\* a search of depth 2 or more that took a cutoff (it visited fewer positions
\* than negamax) and whose best move is not the first one scanned
C26_Witness ==
    /\ pc = "searched" /\ call.depth >= 2
    /\ ret.self.complexity < Negamax(GivenBoard, call.depth).nodes
    /\ Negamax(GivenBoard, call.depth).best > 1

\* the board as it is now
BoardNow ==
    [piece_locations |-> piece_locations, current_player |-> current_player,
     legal_moves |-> legal_moves]

\* C22, the search works on clones only: after alpha_beta and after
\* play(board) with alpha-beta or Monte-Carlo tree search the board given
\* has the piece_locations, current_player and legal_moves it had before.
C22_SearchLeavesBoard ==
    (pc \in {"searched", "played"}) => BoardNow = GivenBoard

\* C23, the computer's move is a legal one: when legal_moves of the board
\* is not empty, the move play(board) returns with algorithm "1" or "2" is
\* an element of legal_moves, never None or the best_move of an earlier call.
C23_PlayReturnsLegalMove ==
    (pc = "played" /\ call.algorithm \in {"1", "2"} /\ Len(GivenBoard.legal_moves) > 0) =>
        \E i \in DOMAIN GivenBoard.legal_moves : ret.move = GivenBoard.legal_moves[i]

(***************************************************************************)
(* players.py: Node and the Monte-Carlo tree search of                     *)
(* RandomComputerPlayer.  The tree is the list of its nodes in the order   *)
(* they were made; a node is named by its index, the root by 1, and the    *)
(* parent None of the root is written 0.                                   *)
(***************************************************************************)
\* passes of the loop of monte_carlo that are followed (nr_iter in the code)
MaxIter == 4

\* of random.choice(current_board.legal_moves), the outcomes followed: the
\* first MaxChoices moves of the list
MaxChoices == 2

\* if iter == 5
RolloutHorizon == 5

\* Node(board, parent, action)
Node(board, parent, action) ==
    [board |-> board, parent |-> parent, parent_action |-> action,
     children |-> <<>>, visits |-> 0, wins |-> 0, loses |-> 0,
     untried_actions |-> board.legal_moves]

\* Node.get_score
node_get_score(node) == node.wins - node.loses

\* Board.is_game_over of a board of the tree (what it prints left aside)
board_is_game_over(board) ==
    is_game_over(board.piece_locations, board.current_player, board.legal_moves).game_finished

\* c_param * np.sqrt(2 * np.log(N) / n) in millionths, rounded, for
\* N = node.visits (the row) and n = c.visits (the column) from 1 to 8
ExploreTable ==
    << <<0, 0, 0, 0, 0, 0, 0, 0>>,
       <<117741, 83255, 67978, 58871, 52655, 48068, 44502, 41628>>,
       <<148230, 104815, 85581, 74115, 66291, 60515, 56026, 52407>>,
       <<166511, 117741, 96135, 83255, 74466, 67978, 62935, 58871>>,
       <<179412, 126864, 103584, 89706, 80236, 73245, 67811, 63432>>,
       <<189302, 133857, 109293, 94651, 84658, 77282, 71549, 66928>>,
       <<197277, 139496, 113898, 98638, 88225, 80538, 74564, 69748>>,
       <<203933, 144203, 117741, 101967, 91202, 83255, 77080, 72101>> >>

\* the UCB score of child c is larger than the one of child d:
\* score(c)/visits(c) + explore(c) > score(d)/visits(d) + explore(d),
\* multiplied by visits(c) * visits(d)
UcbGreater(visits, c, d) ==
    (node_get_score(c) * d.visits - node_get_score(d) * c.visits) * 1000000
        > (ExploreTable[visits][d.visits] - ExploreTable[visits][c.visits])
              * c.visits * d.visits

\* best_child: the child np.argmax picks, the first one of the largest UCB
\* score; 0 when the expression raises (no child, or a division by
\* c.visits = 0) or takes the logarithm of node.visits = 0
best_child(nodes, node) ==
    LET children == nodes[node].children
        visits   == nodes[node].visits
        child(k) == nodes[children[k]]
    IN  IF \/ Len(children) = 0
           \/ visits = 0
           \/ \E k \in DOMAIN children : child(k).visits = 0
        THEN 0
        ELSE children[Min({k \in DOMAIN children :
                             \A j \in DOMAIN children :
                                 ~UcbGreater(visits, child(j), child(k))})]

\* expansion that leaves the action among the untried ones
expansion_keep(nodes, node) ==
    LET untried == nodes[node].untried_actions
        action  == untried[Len(untried)]
        child   == Node(simulate(nodes[node].board.piece_locations,
                                 nodes[node].board.current_player, action, TRUE).board,
                        node, action)
    IN  [nodes |-> Append([nodes EXCEPT ![node].children = Append(@, Len(nodes) + 1)],
                          child),
         node  |-> Len(nodes) + 1]

\* expansion: [nodes: the tree afterwards, node: the child made]
expansion(nodes, node) ==
    LET untried == nodes[node].untried_actions
        action  == untried[Len(untried)]
        child   == Node(simulate(nodes[node].board.piece_locations,
                                 nodes[node].board.current_player, action, TRUE).board,
                        node, action)
    IN  [nodes |-> Append([nodes EXCEPT
                              ![node].untried_actions = SubSeq(untried, 1, Len(untried) - 1),
                              ![node].children = Append(@, Len(nodes) + 1)],
                          child),
         node  |-> Len(nodes) + 1]

\* selection from current_node on: [nodes, node: the node returned, 0 when
\* best_child raised, evaluated: the nodes best_child was evaluated on]
RECURSIVE selection(_, _, _)
selection(nodes, current_node, evaluated) ==
    IF board_is_game_over(nodes[current_node].board)
    THEN [nodes |-> nodes, node |-> current_node, evaluated |-> evaluated]
    ELSE IF Len(nodes[current_node].untried_actions) # 0
    THEN Bind(expansion(nodes, current_node), LAMBDA expanded :
            [nodes |-> expanded.nodes, node |-> expanded.node, evaluated |-> evaluated])
    ELSE Bind(best_child(nodes, current_node), LAMBDA best :
            IF best = 0
            THEN [nodes |-> nodes, node |-> 0,
                  evaluated |-> Append(evaluated, current_node)]
            ELSE selection(nodes, best, Append(evaluated, current_node)))

\* Player.__init__: self.allied_colors
allied_colors(color) == IF In(color, "redyellow") THEN "redyellow" ELSE "bluegreen"

\* result that reports a level material balance as 0
result_draw(self, board) ==
    LET plr == IF In(get_color(board.current_player), self.allied_colors) THEN 1 ELSE 0 - 1
        balance == score(board.piece_locations, board.current_player)
    IN  IF board_is_game_over(board) THEN plr * (0 - 1)
        ELSE IF balance > 0 THEN plr * 1
        ELSE IF balance = 0 THEN 0
        ELSE plr * (0 - 1)

\* result
result(self, board) ==
    LET plr == IF In(get_color(board.current_player), self.allied_colors) THEN 1 ELSE 0 - 1
    IN  IF board_is_game_over(board) THEN plr * (0 - 1)
        ELSE IF score(board.piece_locations, board.current_player) > 0 THEN plr * 1
        ELSE plr * (0 - 1)

\* backpropogation that stops below the root
RECURSIVE backpropogation_below_root(_, _, _)
backpropogation_below_root(nodes, reward, current_node) ==
    IF nodes[current_node].parent = 0 THEN nodes
    ELSE backpropogation_below_root(
             [nodes EXCEPT ![current_node].loses = IF reward = 0 - 1 THEN @ + 1 ELSE @,
                           ![current_node].wins = IF reward = 1 THEN @ + 1 ELSE @,
                           ![current_node].visits = @ + 1],
             reward, nodes[current_node].parent)

\* backpropogation: the tree afterwards
RECURSIVE backpropogation(_, _, _)
backpropogation(nodes, reward, current_node) ==
    LET counted == [nodes EXCEPT
                       ![current_node].loses = IF reward = 0 - 1 THEN @ + 1 ELSE @,
                       ![current_node].wins = IF reward = 1 THEN @ + 1 ELSE @,
                       ![current_node].visits = @ + 1]
    IN  IF nodes[current_node].parent = 0 THEN counted
        ELSE backpropogation(counted, reward, nodes[current_node].parent)

(***************************************************************************)
(* Specification MctsSpec: RandomComputerPlayer.monte_carlo(board) of      *)
(* players.py, called by red's player on a board as play() has it when it  *)
(* calls AI_move.  call is the frame of monte_carlo: the tree, the number  *)
(* i of passes done and the locals of the pass under way.  No statement of *)
(* the search assigns to a field of a node's board (is_game_over reads,    *)
(* simulate copies), so the board given stays as it is.                    *)
(***************************************************************************)
\* the kings and a red Queen that leaves the blue King no move, the Queen
\* first in the dict
RedQueenBoard == <<Entry(RedPiece("Q", <<5, 1>>))>> \o CornerKings

MctsBoards ==
    {CornerKings, RedQueenBoard,
     CornerKings \o <<Entry(BluePiece("Q", <<2, 4>>))>>,
     CornerKings \o <<Entry(RedPiece("P", <<12, 5>>)), Entry(BluePiece("N", <<10, 4>>))>>}

MctsInit ==
    /\ piece_locations \in MctsBoards
    /\ current_player = 0
    /\ legal_moves = get_moves(piece_locations, current_player, <<>>).legal_moves
    /\ selected_tiles = <<>>
    /\ game_finished = FALSE
    /\ opponent = "computer"
    /\ turns = 0
    /\ pc = "monte_carlo"
    /\ call = [op |-> "monte_carlo",
               self |-> [color |-> "red", allied_colors |-> allied_colors("red")],
               nodes |-> <<>>, i |-> 0, expanded_node |-> 0, evaluated |-> <<>>,
               current_board |-> None, iter |-> 0, reward |-> 0, before |-> <<>>]
    /\ ret = None

\* root = Node(board)
MonteCarloRoot ==
    /\ pc = "monte_carlo"
    /\ call' = [call EXCEPT !.nodes = <<Node([piece_locations |-> piece_locations,
                                             current_player |-> current_player,
                                             legal_moves |-> legal_moves], 0, None)>>]
    /\ pc' = "selection"
    /\ UNCHANGED <<piece_locations, current_player, legal_moves, selected_tiles,
                   game_finished, opponent, turns, ret>>

\* expanded_node = self.selection(root), and the head of rollout
Selection ==
    /\ pc = "selection"
    /\ call.i < MaxIter
    /\ \E selected \in {selection(call.nodes, 1, <<>>)} :
          /\ call' = [call EXCEPT !.nodes = selected.nodes,
                                  !.expanded_node = selected.node,
                                  !.evaluated = selected.evaluated,
                                  !.current_board =
                                      IF selected.node = 0 THEN None
                                      ELSE selected.nodes[selected.node].board,
                                  !.iter = 0]
          /\ pc' = IF selected.node = 0 THEN "raised" ELSE "rollout"
    /\ UNCHANGED <<piece_locations, current_player, legal_moves, selected_tiles,
                   game_finished, opponent, turns, ret>>

\* rollout, a pass of its loop that plays a move
RolloutMove ==
    /\ pc = "rollout"
    /\ ~board_is_game_over(call.current_board)
    /\ call.iter # RolloutHorizon
    /\ \E k \in DOMAIN call.current_board.legal_moves :
          /\ k <= MaxChoices
          /\ call' = [call EXCEPT
                         !.current_board =
                             simulate(call.current_board.piece_locations,
                                      call.current_board.current_player,
                                      call.current_board.legal_moves[k], TRUE).board,
                         !.iter = @ + 1]
    /\ UNCHANGED <<piece_locations, current_player, legal_moves, selected_tiles,
                   game_finished, opponent, turns, pc, ret>>

\* rollout: return self.result(current_board), inside the loop or after it
RolloutReturn ==
    /\ pc = "rollout"
    /\ board_is_game_over(call.current_board) \/ call.iter = RolloutHorizon
    /\ call' = [call EXCEPT !.reward = result(call.self, call.current_board)]
    /\ pc' = "backpropogation"
    /\ UNCHANGED <<piece_locations, current_player, legal_moves, selected_tiles,
                   game_finished, opponent, turns, ret>>

\* self.backpropogation(reward, expanded_node); before keeps the tree as it
\* was when the call was made
Backpropogation ==
    /\ pc = "backpropogation"
    /\ call' = [call EXCEPT
                   !.nodes = backpropogation(call.nodes, call.reward, call.expanded_node),
                   !.before = call.nodes,
                   !.i = @ + 1]
    /\ pc' = "selection"
    /\ UNCHANGED <<piece_locations, current_player, legal_moves, selected_tiles,
                   game_finished, opponent, turns, ret>>

\* return self.best_child(root).parent_action
MonteCarloReturn ==
    /\ pc = "selection"
    /\ call.i = MaxIter
    /\ \E best \in {best_child(call.nodes, 1)} :
          /\ ret' = IF best = 0 THEN [raised |-> TRUE, move |-> None]
                    ELSE [raised |-> FALSE, move |-> call.nodes[best].parent_action]
          /\ pc' = IF best = 0 THEN "raised" ELSE "returned"
    /\ call' = [call EXCEPT !.evaluated = <<1>>]
    /\ UNCHANGED <<piece_locations, current_player, legal_moves, selected_tiles,
                   game_finished, opponent, turns>>

MctsNext ==
    \/ MonteCarloRoot
    \/ Selection
    \/ RolloutMove
    \/ RolloutReturn
    \/ Backpropogation
    \/ MonteCarloReturn

MctsSpec == MctsInit /\ [][MctsNext]_vars

(***************************************************************************)
(* Properties of the tree search (specification MctsSpec)                  *)
(***************************************************************************)
\* node is from or one of its ancestors
RECURSIVE OnChain(_, _, _)
OnChain(nodes, node, from) ==
    \/ node = from
    \/ nodes[from].parent # 0 /\ OnChain(nodes, node, nodes[from].parent)

\* the node with its three counters set to zero
Uncounted(node) == [node EXCEPT !.visits = 0, !.wins = 0, !.loses = 0]

\* C24, backpropagation runs up the whole parent chain: with reward 1 or -1,
\* backpropogation adds exactly 1 to visits of the node and of each of its
\* ancestors up to and including the root, adds exactly 1 to wins (reward 1)
\* or loses (reward -1) of those nodes, and changes no other node and no
\* other field; after k passes of monte_carlo root.visits = k.
C24_BackpropagationChain ==
    /\ (call.op = "monte_carlo" /\ Len(call.nodes) > 0) => call.nodes[1].visits = call.i
    /\ (pc = "selection" /\ call.i > 0) =>
          /\ DOMAIN call.nodes = DOMAIN call.before
          /\ call.reward \in {1, 0 - 1}
          /\ \A n \in DOMAIN call.nodes :
                LET now  == call.nodes[n]
                    was  == call.before[n]
                    step == IF OnChain(call.before, n, call.expanded_node) THEN 1 ELSE 0
                IN  /\ Uncounted(now) = Uncounted(was)
                    /\ now.visits = was.visits + step
                    /\ now.wins = was.wins + (IF call.reward = 1 THEN step ELSE 0)
                    /\ now.loses = was.loses + (IF call.reward = 0 - 1 THEN step ELSE 0)

\* the last pass back-propagated a win from a node two levels below the
\* root, past nodes that hold losses, next to nodes off the chain
C24_Witness ==
    /\ pc = "selection" /\ call.i = MaxIter
    /\ call.reward = 1
    /\ call.nodes[call.expanded_node].parent > 1
    /\ call.before[1].loses > 0
    /\ \E n \in DOMAIN call.nodes :
          ~OnChain(call.before, n, call.expanded_node) /\ call.nodes[n].visits > 0

\* C25, a rollout is bounded: rollout plays at most 5 moves, each onto a
\* clone whose player is the next in turn, returns as soon as the board
\* reached has no legal moves or 5 moves have been played, and its result is
\* +1 or -1, also when the material balance is exactly 0.
C25_RolloutBounded ==
    (pc \in {"rollout", "backpropogation"}) =>
        /\ call.iter \in 0..RolloutHorizon
        /\ call.current_board.current_player
              = (call.nodes[call.expanded_node].board.current_player + call.iter) % 4
        /\ pc = "backpropogation" =>
              /\ call.reward \in {1, 0 - 1}
              /\ call.iter = RolloutHorizon \/ board_is_game_over(call.current_board)

\* a rollout returned after 5 moves on a board that has legal moves and a
\* material balance of 0
C25_Witness ==
    /\ pc = "backpropogation"
    /\ call.iter = RolloutHorizon
    /\ ~board_is_game_over(call.current_board)
    /\ score(call.current_board.piece_locations, call.current_board.current_player) = 0
    /\ call.current_board.piece_locations # call.nodes[call.expanded_node].board.piece_locations

\* the actions of the children of the node, the latest first, after the
\* actions not yet tried: the legal moves of the node's board
ExpandedOnce(nodes, n) ==
    LET node  == nodes[n]
        tried == [j \in 1..Len(node.children) |->
                     nodes[node.children[Len(node.children) + 1 - j]].parent_action]
    IN  node.untried_actions \o tried = node.board.legal_moves

\* C30, best_child is evaluated on visited nodes only: during monte_carlo on
\* a board with a legal move, every node best_child is evaluated on has a
\* child, visits >= 1 and children of visits >= 1 each, so best_child never
\* raises; a pass adds at most one node to the tree, and a legal move of a
\* node is expanded at most once.
C30_BestChildDefined ==
    (call.op = "monte_carlo" /\ Len(legal_moves) > 0) =>
        /\ pc # "raised"
        /\ \A k \in DOMAIN call.evaluated :
              LET node == call.nodes[call.evaluated[k]]
              IN  /\ Len(node.children) >= 1
                  /\ node.visits >= 1
                  /\ \A c \in DOMAIN node.children : call.nodes[node.children[c]].visits >= 1
        /\ Len(call.nodes) <= 1 + call.i
                                + (IF pc \in {"rollout", "backpropogation"} THEN 1 ELSE 0)
        /\ \A n \in DOMAIN call.nodes :
              /\ ExpandedOnce(call.nodes, n)
              /\ \A c \in DOMAIN call.nodes[n].children :
                    call.nodes[call.nodes[n].children[c]].parent = n

\* selection evaluated best_child on a root visited twice or more and went
\* on to expand a node below it
C30_Witness ==
    /\ pc = "rollout"
    /\ Len(call.evaluated) >= 1
    /\ call.nodes[call.evaluated[1]].visits >= 2
    /\ call.nodes[call.expanded_node].parent > 1

(***************************************************************************)
(* Properties of the generated moves (specifications PositionSpec, Spec)   *)
(***************************************************************************)
\* the chess rule of the pawn: one step forward onto an empty square, two
\* steps from its start square over empty squares, or one diagonal step
\* onto an occupied square
PawnRule(locs, pawn, from, to) ==
    LET step == <<to[1] - from[1], to[2] - from[2]>>
        one  == getmove(from, pawn.direction[1], pawn.direction[2])
        two  == getmove(from, pawn.direction[1] * 2, pawn.direction[2] * 2)
    IN  \/ to = one /\ check_for_piece(locs, one) = None
        \/ /\ to = two /\ pawn.start_position = from
           /\ check_for_piece(locs, one) = None /\ check_for_piece(locs, two) = None
        \/ /\ step \in {pawn.diag_left_direction, pawn.diag_right_direction}
           /\ check_for_piece(locs, to) # None

\* the move follows the movement rule of the piece on its start square
ObeysRule(locs, move) ==
    LET piece == check_for_piece(locs, move.start_position)
    IN  /\ piece # None
        /\ IF piece.piece_name = "P"
           THEN PawnRule(locs, piece, move.start_position, move.end_position)
           ELSE Attacks(locs, move.start_position, move.end_position)

\* C28, generated moves follow the pieces' movement rules: every move
\* get_moves() lists obeys the movement rule of the piece on its start
\* square (pawn step or diagonal capture, knight L-offset, ray of a bishop,
\* rook or queen through empty squares, single step of the king), also when
\* the side to move is in check by one knight.
C28_MovesObeyPieceRule ==
    (pc = "got" /\ call.op = "get_moves") =>
        \A i \in DOMAIN legal_moves : ObeysRule(piece_locations, legal_moves[i])

\* legal_moves is what get_moves() made of the position as it is now
MovesOfPosition ==
    \/ pc \in {"ai_game_over", "AI_move", "got"}
    \/ pc \in {"loop", "events"} /\ opponent = "human"

\* C29, moves start on own pieces and never land on the own team or off the
\* board: every move get_moves() lists starts on a square that holds a piece
\* of the current player's colour, ends on a square of the board, and does
\* not end on a square that holds a piece of the current player's team; and
\* every piece stands on a square of the board.
C29_MovesStartOwnEndFree ==
    /\ \A i \in DOMAIN piece_locations : is_on_board(piece_locations[i].pos)
    /\ MovesOfPosition =>
          \A i \in DOMAIN legal_moves :
              LET mover  == check_for_piece(piece_locations, legal_moves[i].start_position)
                  target == check_for_piece(piece_locations, legal_moves[i].end_position)
              IN  /\ mover # None
                  /\ mover.color = get_color(current_player)
                  /\ is_on_board(legal_moves[i].end_position)
                  /\ target # None => ~In(get_color(current_player), target.team)

\* after some turns get_moves() listed a capture and left out the step of a
\* knight onto a piece of its own team
C29_Witness ==
    /\ pc = "AI_move" /\ turns > 0
    /\ \E i \in DOMAIN legal_moves :
          check_for_piece(piece_locations, legal_moves[i].end_position) # None
    /\ \E i \in DOMAIN piece_locations, n \in DOMAIN knight_moves :
          LET knight == piece_locations[i]
              target == check_for_piece(piece_locations,
                            getmove(knight.pos, knight_moves[n][1], knight_moves[n][2]))
          IN  /\ knight.piece.piece_name = "N"
              /\ knight.piece.color = get_color(current_player)
              /\ target # None
              /\ In(get_color(current_player), target.team)

====
